---- MODULE Spec2Model ----
(***************************************************************************)
(* A model of the oxidicom reception-and-fanout pipeline:                  *)
(*   series_synchronizer (src/src/series_synchronizer.rs)                  *)
(*   messenger           (src/src/messenger.rs)                            *)
(*   lonk_publisher      (src/src/lonk_publisher.rs)                       *)
(*   celery_publisher    (src/src/celery_publisher.rs)                     *)
(*   SubjectLimiter      (src/src/limiter.rs)                              *)
(*   series state tracker (src/src/association_series_state_loop.rs)       *)
(* Every stage is a task of its own; the channels between them are         *)
(* unbounded FIFO queues (tokio mpsc::unbounded_channel).                  *)
(***************************************************************************)
EXTENDS Integers, Sequences, FiniteSets, TLC

VARIABLES
    \* ---- series_synchronizer ------------------------------------------
    rx_storetasks,   \* upstream channel: <<(series, SeriesEvent<JoinHandle>)>>
    srcClosed,       \* every sender of the upstream channel was dropped
    sourced,         \* history: every event ever sent on the upstream channel
    nextId,          \* next fresh event id (one per JoinHandle / Finish payload)
    task,            \* JoinHandle state of each storage task: none/pending/ok/err
    completed,       \* history: task ids in the order their handles resolved
    inflight_series, \* HashMap<K, Vec<JoinHandle>> of the receiver loop
    spawned,         \* ids whose forwarder (register_task) was spawned
    forwarded,       \* ids whose forwarder has sent its Instance downstream
    flushTasks,      \* the spawned wait_on_all_then_flush tasks, in tx order
    joined,          \* how many flush tasks the joiner loop has joined
    syncPc,          \* "recv" | "draining" | "returned"
    logged,          \* number of "No tasks were received" errors logged
    rx_register,     \* downstream channel of the synchronizer
    sent,            \* history: every event the synchronizer sent downstream
    \* ---- messenger ----------------------------------------------------
    counts,          \* SeriesCounts: HashMap<SeriesKey, u32>
    emitted,         \* history of tx_lonk: every PublishLonkParams sent
    celery,          \* history of tx_celery: every CubeRegistrationParams sent
    msgPc,           \* "run" | "failed" (a send returned SendError)
    \* ---- lonk_publisher, celery_publisher, SubjectLimiter --------------
    lonkRead,        \* how many of `emitted` lonk_publisher has received
    celeryRead,      \* how many of `celery` celery_publisher has received
    submitted,       \* history: tasks accepted by the task queue
    celPc,           \* "run" | "failed"
    pubLog,          \* history: what lonk_publisher did with each message
    subjects,        \* PureSubjectLimiter.subjects: subject -> SubjectState
    sems,            \* the semaphores ever created, by creation index
    lim,             \* per caller of the limiter: its position and locals
    start,           \* PureSubjectLimiter.start
    interval,        \* PureSubjectLimiter.interval (progress_interval)
    clock,           \* Instant::now()
    \* ---- association_series_state_loop --------------------------------
    scp,             \* per association: what its handler has sent so far
    assocClosed,     \* every sender of the AssociationEvent channel dropped
    rx_association,  \* the AssociationEvent channel
    inflight_associations, \* HashMap<Ulid, Association>
    everything_ok,   \* the flag of association_series_state_loop
    trkIn,           \* history: the events match_event handled, with outcome
    trkOut,          \* history: the messages association_series_state_loop sent
    trkPc,           \* "run" | "ok" | "err" | "panic"
    \* ---- scp.rs: the handler of each connection -----------------------
    conn,            \* per connection: position and locals of its handler
    stored,          \* history: the objects given to the storage
    pdus,            \* number of PDUs received on all connections
    \* ---- listener_tcp_loop.rs, thread_pool.rs --------------------------
    listener,        \* dicom_listener_tcp_loop: position, connections taken
    sender,          \* ThreadPool.sender is Some
    jobs,            \* the mpsc channel of the pool: the jobs not yet received
    receiver_lock,   \* the worker that holds the mutex of the receiver, or 0
    workers,         \* per worker thread: its position and its job
    executed,        \* history: the jobs given to ThreadPool::execute
    started,         \* history: the jobs in the order the workers began them
    \* ---- pacs_file.rs, cube_client.rs, cube_sender.rs -------------------
    call,            \* the last call of a function: its arguments and result
    chris            \* ChrisSender and the jobs of its worker pool

varsSync == <<rx_storetasks, srcClosed, sourced, nextId, task, completed,
              inflight_series, spawned, forwarded, flushTasks, joined,
              syncPc, logged, rx_register, sent>>

varsMsg == <<counts, emitted, celery, msgPc>>

varsPub == <<lonkRead, celeryRead, submitted, celPc, pubLog>>

varsLim == <<subjects, sems, lim, start, interval, clock>>

varsScp == <<conn, stored, pdus>>

varsPool == <<listener, sender, jobs, receiver_lock, workers, executed,
              started>>

varsAux == <<call, chris>>

varsTrk == <<scp, assocClosed, rx_association, inflight_associations,
             everything_ok, trkIn, trkOut, trkPc, varsScp, varsPool, varsAux>>

vars == <<varsSync, varsMsg, varsPub, varsLim, varsTrk>>

----------------------------------------------------------------------------
\* Bounds of the model.

\* number of events (Instance and Finish) the upstream may send in one run
MaxEvents == 3

\* generic keys of the synchronizer unit (test_synchronizer uses "A")
Keys == {"A", "B"}

\* number of events the series state tracker may send in one run of the
\* whole pipeline
MaxFed == 4

\* the ids of the events of a run, in the order of their creation
Ids == 1..(IF MaxFed > MaxEvents THEN MaxFed ELSE MaxEvents)

----------------------------------------------------------------------------
\* Helpers on sequences.

Range(s) == {s[i] : i \in DOMAIN s}

\* position of the (unique) event with this id and kind in a history, 0 if absent
PosOf(hist, id, kind) ==
    IF \E p \in DOMAIN hist : hist[p].id = id /\ hist[p].kind = kind
    THEN CHOOSE p \in DOMAIN hist : hist[p].id = id /\ hist[p].kind = kind
    ELSE 0

\* position of a task id in the completion history, 0 if it has not resolved
CompletedAt(id) ==
    IF \E p \in DOMAIN completed : completed[p] = id
    THEN CHOOSE p \in DOMAIN completed : completed[p] = id
    ELSE 0

----------------------------------------------------------------------------
\* The upstream of the synchronizer unit: any sequence of Instance and Finish
\* events, any key (series_synchronizer.rs:126-137 sends three tasks and a
\* Finish; the unit accepts every sequence the channel type allows).

SeriesEventInstance(series, id, assoc) ==
    [series |-> series, kind |-> "Instance", id |-> id, assoc |-> assoc]

SeriesEventFinish(series, id, assoc) ==
    [series |-> series, kind |-> "Finish", id |-> id, assoc |-> assoc]

\* tokio::spawn of a storage task and the send of its handle
source_instance(series, assoc) ==
    /\ ~srcClosed
    /\ rx_storetasks' = Append(rx_storetasks, SeriesEventInstance(series, nextId, assoc))
    /\ sourced' = Append(sourced, SeriesEventInstance(series, nextId, assoc))
    /\ task' = [task EXCEPT ![nextId] = "pending"]
    /\ nextId' = nextId + 1

source_finish(series, assoc) ==
    /\ ~srcClosed
    /\ rx_storetasks' = Append(rx_storetasks, SeriesEventFinish(series, nextId, assoc))
    /\ sourced' = Append(sourced, SeriesEventFinish(series, nextId, assoc))
    /\ nextId' = nextId + 1
    /\ UNCHANGED task

SourceInstance ==
    /\ nextId <= MaxEvents
    /\ \E k \in Keys : source_instance(k, "none")
    /\ UNCHANGED <<varsMsg, varsPub, varsLim, varsTrk>>
    /\ UNCHANGED <<srcClosed, completed, inflight_series, spawned, forwarded,
                   flushTasks, joined, syncPc, logged, rx_register, sent>>

SourceFinish ==
    /\ nextId <= MaxEvents
    /\ \E k \in Keys : source_finish(k, "none")
    /\ UNCHANGED <<varsMsg, varsPub, varsLim, varsTrk>>
    /\ UNCHANGED <<srcClosed, completed, inflight_series, spawned, forwarded,
                   flushTasks, joined, syncPc, logged, rx_register, sent>>

\* the source future ends and drops source_tx
SourceClose ==
    /\ ~srcClosed
    /\ srcClosed' = TRUE
    /\ UNCHANGED <<varsMsg, varsPub, varsLim, varsTrk>>
    /\ UNCHANGED <<rx_storetasks, sourced, nextId, task, completed,
                   inflight_series, spawned, forwarded, flushTasks, joined,
                   syncPc, logged, rx_register, sent>>

\* A storage task finishes on the blocking pool: its JoinHandle resolves.
\* The result is Ok or Err (Result<(), DicomStorageError>).
TaskResolve ==
    /\ \E i \in Ids, r \in {"ok", "err"} :
          /\ task[i] = "pending"
          /\ task' = [task EXCEPT ![i] = r]
          /\ completed' = Append(completed, i)
    /\ UNCHANGED <<varsMsg, varsPub, varsLim, varsTrk>>
    /\ UNCHANGED <<rx_storetasks, srcClosed, sourced, nextId, inflight_series,
                   spawned, forwarded, flushTasks, joined, syncPc, logged,
                   rx_register, sent>>

----------------------------------------------------------------------------
\* series_synchronizer

\* enqueue_and_insert: spawn the forwarder of the handle and push it on the
\* key's Vec, creating the entry when the key is absent.
enqueue_and_insert(series, id) ==
    /\ spawned' = spawned \cup {id}
    /\ inflight_series' =
          IF series \in DOMAIN inflight_series
          THEN [inflight_series EXCEPT ![series] = Append(@, id)]
          ELSE inflight_series @@ (series :> <<id>>)

\* variant: the tasks of the key are read and the key stays in the map
enqueue_finish_keeping_key(series, ev) ==
    IF series \in DOMAIN inflight_series
    THEN /\ flushTasks' = Append(flushTasks,
              [series |-> series, tasks |-> Range(inflight_series[series]),
               last |-> ev, done |-> FALSE])
         /\ UNCHANGED <<inflight_series, logged>>
    ELSE /\ logged' = logged + 1
         /\ UNCHANGED <<inflight_series, flushTasks>>

\* the Finish arm of the receiver loop: inflight_series.remove(&series); when
\* the key was present spawn wait_on_all_then_flush over its tasks and hand
\* the task to the joiner loop, otherwise log the error.
enqueue_finish(series, ev) ==
    IF series \in DOMAIN inflight_series
    THEN /\ inflight_series' =
              [k \in DOMAIN inflight_series \ {series} |-> inflight_series[k]]
         /\ flushTasks' = Append(flushTasks,
              [series |-> series, tasks |-> Range(inflight_series[series]),
               last |-> ev, done |-> FALSE])
         /\ UNCHANGED logged
    ELSE /\ logged' = logged + 1
         /\ UNCHANGED <<inflight_series, flushTasks>>

\* one iteration of the receiver loop: receiver.recv().await and the match
receiver_loop ==
    /\ syncPc = "recv"
    /\ rx_storetasks # <<>>
    /\ LET ev == Head(rx_storetasks) IN
          /\ rx_storetasks' = Tail(rx_storetasks)
          /\ IF ev.kind = "Instance"
             THEN /\ enqueue_and_insert(ev.series, ev.id)
                  /\ UNCHANGED <<flushTasks, logged>>
             ELSE /\ enqueue_finish(ev.series, ev)
                  /\ UNCHANGED spawned
    /\ UNCHANGED <<varsMsg, varsPub, varsLim, varsTrk>>
    /\ UNCHANGED <<srcClosed, sourced, nextId, task, completed, forwarded,
                   joined, syncPc, rx_register, sent>>

\* recv() returns None: the loop ends and tx is dropped
receiver_loop_end ==
    /\ syncPc = "recv"
    /\ rx_storetasks = <<>>
    /\ srcClosed
    /\ syncPc' = "draining"
    /\ UNCHANGED <<varsMsg, varsPub, varsLim, varsTrk>>
    /\ UNCHANGED <<rx_storetasks, srcClosed, sourced, nextId, task, completed,
                   inflight_series, spawned, forwarded, flushTasks, joined,
                   logged, rx_register, sent>>

\* mutant: the forwarder also waits for every forwarder spawned before it
register_task_ready_in_order(id) ==
    /\ id \in spawned \ forwarded
    /\ task[id] \in {"ok", "err"}
    /\ \A j \in spawned : j < id => j \in forwarded

\* variant: the forwarder of a failed write never completes
register_task_ready_stored_only(id) ==
    /\ id \in spawned \ forwarded
    /\ task[id] = "ok"

\* the forwarder spawned by enqueue_and_insert can run: task.await is ready
register_task_ready(id) ==
    /\ id \in spawned \ forwarded
    /\ task[id] \in {"ok", "err"}

\* the forwarder: sender.send((series, Instance(task.await.unwrap())))
register_task(id) ==
    /\ register_task_ready(id)
    /\ LET ev == sourced[PosOf(sourced, id, "Instance")]
           out == [series |-> ev.series, kind |-> "Instance", id |-> id,
                   res |-> task[id], assoc |-> ev.assoc]
       IN /\ rx_register' = Append(rx_register, out)
          /\ sent' = Append(sent, out)
    /\ forwarded' = forwarded \cup {id}

RegisterTask ==
    /\ \E id \in Ids : register_task(id)
    /\ UNCHANGED <<varsMsg, varsPub, varsLim, varsTrk>>
    /\ UNCHANGED <<rx_storetasks, srcClosed, sourced, nextId, task, completed,
                   inflight_series, spawned, flushTasks, joined, syncPc, logged>>

\* mutant: the flush task joins nothing before it sends the Finish
wait_on_none(tasks) == TRUE

\* wait_on_all_then_flush has joined every forwarder of its Vec
\* (buffer_unordered(usize::MAX) joins them in any order, for_each drains all)
wait_on_all(tasks) == tasks \subseteq forwarded

\* wait_on_all_then_flush: after the join, sender.send((series, Finish(last)))
wait_on_all_then_flush(n) ==
    /\ ~flushTasks[n].done
    /\ wait_on_all(flushTasks[n].tasks)
    /\ LET f == flushTasks[n]
           out == [series |-> f.series, kind |-> "Finish", id |-> f.last.id,
                   res |-> "fin", assoc |-> f.last.assoc]
       IN /\ rx_register' = Append(rx_register, out)
          /\ sent' = Append(sent, out)
    /\ flushTasks' = [flushTasks EXCEPT ![n].done = TRUE]

WaitOnAllThenFlush ==
    /\ \E n \in DOMAIN flushTasks : wait_on_all_then_flush(n)
    /\ UNCHANGED <<varsMsg, varsPub, varsLim, varsTrk>>
    /\ UNCHANGED <<rx_storetasks, srcClosed, sourced, nextId, task, completed,
                   inflight_series, spawned, forwarded, joined, syncPc, logged>>

\* joiner loop: rx.recv().await then handle.await, in the order of tx.send
joiner_loop ==
    /\ joined < Len(flushTasks)
    /\ flushTasks[joined + 1].done
    /\ joined' = joined + 1
    /\ UNCHANGED <<varsMsg, varsPub, varsLim, varsTrk>>
    /\ UNCHANGED <<rx_storetasks, srcClosed, sourced, nextId, task, completed,
                   inflight_series, spawned, forwarded, flushTasks, syncPc,
                   logged, rx_register, sent>>

\* variant: the function returns when the receiver loop has ended
series_synchronizer_return_early ==
    /\ syncPc = "draining"
    /\ syncPc' = "returned"
    /\ UNCHANGED <<varsMsg, varsPub, varsLim, varsTrk>>
    /\ UNCHANGED <<rx_storetasks, srcClosed, sourced, nextId, task, completed,
                   inflight_series, spawned, forwarded, flushTasks, joined,
                   logged, rx_register, sent>>

\* tokio::join!(receiver_loop, joiner_loop) completes and the function returns
series_synchronizer_return ==
    /\ syncPc = "draining"
    /\ joined = Len(flushTasks)
    /\ syncPc' = "returned"
    /\ UNCHANGED <<varsMsg, varsPub, varsLim, varsTrk>>
    /\ UNCHANGED <<rx_storetasks, srcClosed, sourced, nextId, task, completed,
                   inflight_series, spawned, forwarded, flushTasks, joined,
                   logged, rx_register, sent>>

series_synchronizer ==
    \/ receiver_loop
    \/ receiver_loop_end
    \/ RegisterTask
    \/ WaitOnAllThenFlush
    \/ joiner_loop
    \/ series_synchronizer_return

----------------------------------------------------------------------------
\* The synchronizer as a unit (test_synchronizer): a source, the storage
\* tasks and the synchronizer, the sink being the history `sent`.

\* the tasks that call the limiter: lonk_publisher, and the tasks of the
\* limiter's own unit
Callers == {"pub", "t1", "t2", "t3"}

Caller_new(pc) ==
    [pc |-> pc, ret |-> "none", subject |-> <<>>, sem |-> 0,
     permit |-> FALSE, last_sent |-> 0, now |-> 0]

InitMsg ==
    /\ counts = <<>>
    /\ emitted = <<>>
    /\ celery = <<>>
    /\ msgPc = "run"

InitPub ==
    /\ lonkRead = 0
    /\ celeryRead = 0
    /\ submitted = <<>>
    /\ celPc = "run"
    /\ pubLog = <<>>

\* SubjectLimiter::new(interval): start = Instant::now() - interval
InitLim(intervals) ==
    /\ clock = 0
    /\ interval \in intervals
    /\ start = clock - interval
    /\ subjects = <<>>
    /\ sems = <<>>
    /\ lim = [c \in Callers |-> Caller_new(IF c = "pub" THEN "recv" ELSE "idle")]

\* the associations of the modelled runs (their ULIDs)
Assocs == {"a1", "a2"}

\* the handler of a connection the listener has not accepted yet
Handler_new ==
    [pc |-> "listen", instance_buffer |-> <<>>, msgid |-> 1, peer |-> "open",
     ended |-> "none", partial |-> <<>>, sent_pdus |-> <<>>]

\* the number of worker threads of the pool of the listener
n_threads == 2

\* the number of connections after which the listener stops
finite_connections == 3

\* Worker::new: the thread starts its loop
Worker_new == [pc |-> "lock", job |-> 0]

\* ThreadPool::new and the start of dicom_listener_tcp_loop
InitPool ==
    /\ listener = [pc |-> "accept", taken |-> 0, joining |-> 0]
    /\ sender = TRUE
    /\ jobs = <<>>
    /\ receiver_lock = 0
    /\ workers = [w \in 1..n_threads |-> Worker_new]
    /\ executed = <<>>
    /\ started = <<>>

\* no function was called yet
NoCall == [fn |-> "none"]

\* the UUIDs of the associations given to ChrisSender
ChrisUuids == {"u1", "u2"}

\* ChrisSender::new: no association is known. With the map are kept the jobs
\* given to the pool and not yet run, and per association the events it has
\* sent (phase, fed), how often its end was registered, and whether a thread
\* panicked
ChrisSender_new ==
    [associations |-> [u \in ChrisUuids |-> <<>>],
     pool |-> <<>>,
     phase |-> [u \in ChrisUuids |-> "new"],
     fed |-> [u \in ChrisUuids |-> 0],
     finalized |-> [u \in ChrisUuids |-> 0],
     panic |-> FALSE]

InitAux ==
    /\ call = NoCall
    /\ chris = ChrisSender_new

InitTrk ==
    /\ InitPool
    /\ InitAux
    /\ conn = [a \in Assocs |-> Handler_new]
    /\ stored = <<>>
    /\ pdus = 0
    /\ scp = [a \in Assocs |-> "idle"]
    /\ assocClosed = FALSE
    /\ rx_association = <<>>
    /\ inflight_associations = <<>>
    /\ everything_ok = TRUE
    /\ trkIn = <<>>
    /\ trkOut = <<>>
    /\ trkPc = "run"

\* default_progress_interval: one unit of the clock
default_progress_interval == 1

InitSync ==
    /\ rx_storetasks = <<>>
    /\ srcClosed = FALSE
    /\ sourced = <<>>
    /\ nextId = 1
    /\ task = [i \in Ids |-> "none"]
    /\ completed = <<>>
    /\ inflight_series = <<>>
    /\ spawned = {}
    /\ forwarded = {}
    /\ flushTasks = <<>>
    /\ joined = 0
    /\ syncPc = "recv"
    /\ logged = 0
    /\ rx_register = <<>>
    /\ sent = <<>>
    /\ InitMsg
    /\ InitPub
    /\ InitLim({default_progress_interval})
    /\ InitTrk

NextSync ==
    \/ SourceInstance
    \/ SourceFinish
    \/ SourceClose
    \/ TaskResolve
    \/ receiver_loop
    \/ receiver_loop_end
    \/ RegisterTask
    \/ WaitOnAllThenFlush
    \/ joiner_loop
    \/ series_synchronizer_return

SpecSync == InitSync /\ [][NextSync]_vars

\* the upstream channel is closed, every handle resolves, and every task
\* of the runtime that can run does
FairSync ==
    /\ WF_vars(SourceClose)
    /\ WF_vars(TaskResolve)
    /\ WF_vars(receiver_loop)
    /\ WF_vars(receiver_loop_end)
    /\ WF_vars(RegisterTask)
    /\ WF_vars(WaitOnAllThenFlush)
    /\ WF_vars(joiner_loop)
    /\ WF_vars(series_synchronizer_return)

SpecSyncFair == SpecSync /\ FairSync

-----------------------------------------------------------------------------
\* types.rs, lonk.rs: series keys, LONK messages and subjects.
\* Strings are sequences of characters so that sanitizing is computed.

SeriesKey_new(series_instance_uid, pacs_name) ==
    [SeriesInstanceUID |-> series_instance_uid, pacs_name |-> pacs_name]

\* the series and the PACS of the modelled runs
UIDs == {<<"1", ".", "2">>, <<"1", ".", "3">>}

AETitles == {<<"P">>}

SeriesKeys == {SeriesKey_new(u, p) : u \in UIDs, p \in AETitles}

root_subject == <<"o", "x">>

RECURSIVE sanitize_subject_part(_)
sanitize_subject_part(name) ==
    IF name = <<>> THEN <<>>
    ELSE LET c == Head(name)
             rest == sanitize_subject_part(Tail(name))
         IN  IF c = "NUL" THEN rest
             ELSE IF c \in {" ", ".", "*", ">"} THEN <<"_">> \o rest
             ELSE <<c>> \o rest

subject_of(root, series) ==
    root \o <<".">> \o sanitize_subject_part(series.pacs_name)
         \o <<".">> \o sanitize_subject_part(series.SeriesInstanceUID)

Lonk_done(series) ==
    [series |-> series, message |-> [type |-> "Done", ndicom |-> 0]]

Lonk_ndicom(series, ndicom) ==
    [series |-> series, message |-> [type |-> "Ndicom", ndicom |-> ndicom]]

Lonk_error(series) ==
    [series |-> series, message |-> [type |-> "Error", ndicom |-> 0]]

PublishLonkParams_optional(lonk) == [lonk |-> lonk, priority |-> "Optional"]

PublishLonkParams_required(lonk) == [lonk |-> lonk, priority |-> "Required"]

PublishLonkParams_last(lonk) == [lonk |-> lonk, priority |-> "Last"]

-----------------------------------------------------------------------------
\* messenger.rs

\* variant: a failed instance is counted too
count_series_counting_errors(series, cnts, result) ==
    IF series \in DOMAIN cnts
    THEN [counts |-> [cnts EXCEPT ![series] = @ + 1],
          lonk |-> PublishLonkParams_optional(
                       Lonk_ndicom(series, cnts[series] + 1))]
    ELSE [counts |-> cnts @@ (series :> 1),
          lonk |-> PublishLonkParams_required(Lonk_ndicom(series, 1))]

\* variant: the first instance of a series is announced as Optional too
count_series_always_optional(series, cnts, result) ==
    IF result = "ok"
    THEN LET n == IF series \in DOMAIN cnts THEN cnts[series] + 1 ELSE 1
         IN  [counts |-> [k \in DOMAIN cnts \cup {series} |->
                             IF k = series THEN n ELSE cnts[k]],
              lonk |-> PublishLonkParams_optional(Lonk_ndicom(series, n))]
    ELSE [counts |-> cnts,
          lonk |-> PublishLonkParams_required(Lonk_error(series))]

\* variant: a failed instance creates the entry of its series
count_series_error_creates_entry(series, cnts, result) ==
    IF result = "ok"
    THEN IF series \in DOMAIN cnts
         THEN [counts |-> [cnts EXCEPT ![series] = @ + 1],
               lonk |-> PublishLonkParams_optional(
                            Lonk_ndicom(series, cnts[series] + 1))]
         ELSE [counts |-> cnts @@ (series :> 1),
               lonk |-> PublishLonkParams_required(Lonk_ndicom(series, 1))]
    ELSE [counts |-> IF series \in DOMAIN cnts THEN cnts
                     ELSE cnts @@ (series :> 0),
          lonk |-> PublishLonkParams_required(Lonk_error(series))]

\* the result is [counts, lonk]: the updated map and the message
count_series(series, cnts, result) ==
    IF result = "ok"
    THEN IF series \in DOMAIN cnts
         THEN [counts |-> [cnts EXCEPT ![series] = @ + 1],
               lonk |-> PublishLonkParams_optional(
                            Lonk_ndicom(series, cnts[series] + 1))]
         ELSE [counts |-> cnts @@ (series :> 1),
               lonk |-> PublishLonkParams_required(Lonk_ndicom(series, 1))]
    ELSE [counts |-> cnts,
          lonk |-> PublishLonkParams_required(Lonk_error(series))]

\* variant: the final count is left out
finish_lonks_without_count(series_key, ndicom) ==
    << PublishLonkParams_last(Lonk_done(series_key)) >>

\* variant: the done message is put before the final count
finish_lonks_done_first(series_key, ndicom) ==
    << PublishLonkParams_last(Lonk_done(series_key)),
       PublishLonkParams_required(Lonk_ndicom(series_key, ndicom)) >>

finish_lonks(series_key, ndicom) ==
    << PublishLonkParams_required(Lonk_ndicom(series_key, ndicom)),
       PublishLonkParams_last(Lonk_done(series_key)) >>

\* variant: Finish leaves the entry of the series in the map
create_messages_for_keeping_count(cnts, series_key, event) ==
    IF event.kind = "Instance"
    THEN LET r == count_series(series_key, cnts, event.res)
         IN  [counts |-> r.counts, lonks |-> <<r.lonk>>, rp |-> <<>>]
    ELSE LET ndicom == IF series_key \in DOMAIN cnts
                       THEN cnts[series_key] ELSE 0
         IN  [counts |-> cnts,
              lonks |-> finish_lonks(series_key, ndicom),
              rp |-> << [series |-> series_key, ndicom |-> ndicom] >>]

\* the result is [counts, lonks, rp]; rp is a sequence of zero or one
\* registration parameters (series_info, ndicom)
create_messages_for(cnts, series_key, event) ==
    IF event.kind = "Instance"
    THEN LET r == count_series(series_key, cnts, event.res)
         IN  [counts |-> r.counts, lonks |-> <<r.lonk>>, rp |-> <<>>]
    ELSE LET ndicom == IF series_key \in DOMAIN cnts
                       THEN cnts[series_key] ELSE 0
         IN  [counts |-> [k \in DOMAIN cnts \ {series_key} |-> cnts[k]],
              lonks |-> finish_lonks(series_key, ndicom),
              rp |-> << [series |-> series_key, ndicom |-> ndicom] >>]

\* ghost: tag what the messenger sends with the event it came from
Tagged(msgs, event) ==
    [i \in DOMAIN msgs |->
        msgs[i] @@ [ev |-> event.id, assoc |-> event.assoc]]

\* one iteration of the loop of messenger. A send fails when the receiving
\* publisher has returned, and the messenger then returns the error.
messenger ==
    /\ msgPc = "run"
    /\ rx_register # <<>>
    /\ LET event == Head(rx_register)
           r == create_messages_for(counts, event.series, event)
       IN  /\ rx_register' = Tail(rx_register)
           /\ counts' = r.counts
           /\ IF lim["pub"].pc = "failed"
              THEN /\ msgPc' = "failed"
                   /\ UNCHANGED <<emitted, celery>>
              ELSE /\ emitted' = emitted \o Tagged(r.lonks, event)
                   /\ IF r.rp # <<>> /\ celPc = "failed"
                      THEN /\ msgPc' = "failed"
                           /\ UNCHANGED celery
                      ELSE /\ celery' = celery \o Tagged(r.rp, event)
                           /\ UNCHANGED msgPc
    /\ UNCHANGED <<rx_storetasks, srcClosed, sourced, nextId, task, completed,
                   inflight_series, spawned, forwarded, flushTasks, joined,
                   syncPc, logged, sent>>
    /\ UNCHANGED <<varsPub, varsLim, varsTrk>>

-----------------------------------------------------------------------------
\* limiter.rs: PureSubjectLimiter. Its operations are functions of the
\* limiter state L = [subjects, sems, lim]; a caller c is a task using the
\* limiter, and lim[c] holds the position and the locals of its call.

LimiterState == [subjects |-> subjects, sems |-> sems, lim |-> lim]

SetLimiter(L) ==
    /\ subjects' = L.subjects
    /\ sems' = L.sems
    /\ lim' = L.lim

\* Semaphore::new(1): nobody holds the permit, no waiter, open
Semaphore_new == [holder |-> "none", closed |-> FALSE, waiters |-> <<>>]

\* variant: every state shares the first semaphore
SubjectState_shared(semId, last_sent) == [sem |-> 1, last_sent |-> last_sent]

SubjectState_new(semId, last_sent) == [sem |-> semId, last_sent |-> last_sent]

\* Instant - Instant saturates at zero
duration_since(now, earlier) == IF now >= earlier THEN now - earlier ELSE 0

\* variant: the permit that is dropped stays held
release_keeping(sem) == sem

\* drop of an OwnedSemaphorePermit: the permit goes to the first waiter
release(sem) ==
    IF sem.closed THEN [sem EXCEPT !.holder = "none"]
    ELSE IF sem.waiters # <<>>
    THEN [sem EXCEPT !.holder = Head(sem.waiters),
                     !.waiters = Tail(sem.waiters)]
    ELSE [sem EXCEPT !.holder = "none"]

\* Semaphore::close: waiters are woken with an error
close(sem) == [sem EXCEPT !.closed = TRUE, !.waiters = <<>>]

\* variant: try_acquire succeeds although the permit is held
try_acquire_owned_held(sem) == ~sem.closed

try_acquire_owned_ok(sem) == ~sem.closed /\ sem.holder = "none"

\* lock, first block: under the mutex, entry().or_insert_with(), try_acquire
lock_enter(L, c, subject, now) ==
    LET fresh == subject \notin DOMAIN L.subjects
        semId == IF fresh THEN Len(L.sems) + 1 ELSE L.subjects[subject].sem
        sem0 == IF fresh THEN Semaphore_new ELSE L.sems[semId]
        state == IF fresh THEN SubjectState_new(semId, start)
                 ELSE L.subjects[subject]
        ok == try_acquire_owned_ok(sem0)
        sem1 == IF ok THEN [sem0 EXCEPT !.holder = c] ELSE sem0
    IN  [subjects |-> IF fresh THEN L.subjects @@ (subject :> state)
                      ELSE L.subjects,
         sems |-> IF fresh THEN Append(L.sems, sem1)
                  ELSE [L.sems EXCEPT ![semId] = sem1],
         lim |-> [L.lim EXCEPT ![c] =
                    [@ EXCEPT !.pc = "lock_decide", !.subject = subject,
                              !.sem = semId, !.permit = ok,
                              !.last_sent = state.last_sent, !.now = now]]]

\* variant of the check of the interval: never too soon
too_soon_never(now, last_sent) == FALSE

too_soon(now, last_sent) == duration_since(now, last_sent) < interval

\* lock, the two tests: None when too soon (a permit that was acquired is
\* dropped), f starts when the permit was acquired, None otherwise
lock_decide(L, c) ==
    LET l == L.lim[c] IN
    IF too_soon(l.now, l.last_sent)
    THEN [L EXCEPT !.sems = IF l.permit
                            THEN [L.sems EXCEPT ![l.sem] = release(@)]
                            ELSE L.sems,
                   !.lim = [L.lim EXCEPT ![c] =
                              [@ EXCEPT !.pc = "ret", !.ret = "TooSoon",
                                        !.permit = FALSE]]]
    ELSE IF l.permit
    THEN [L EXCEPT !.lim = [L.lim EXCEPT ![c] = [@ EXCEPT !.pc = "running"]]]
    ELSE [L EXCEPT !.lim = [L.lim EXCEPT ![c] =
                              [@ EXCEPT !.pc = "ret", !.ret = "Busy"]]]

\* lock, after f.await: last_sent = later() if the state is still there,
\* then the permit is dropped
lock_finish(L, c, later) ==
    LET l == L.lim[c] IN
    [subjects |-> IF l.subject \in DOMAIN L.subjects
                  THEN [L.subjects EXCEPT ![l.subject].last_sent = later]
                  ELSE L.subjects,
     sems |-> [L.sems EXCEPT ![l.sem] = release(@)],
     lim |-> [L.lim EXCEPT ![c] =
                [@ EXCEPT !.pc = "ret", !.ret = "Some", !.permit = FALSE]]]

\* forget, first block: under the mutex, look the subject up
forget_enter(L, c, subject) ==
    IF subject \in DOMAIN L.subjects
    THEN [L EXCEPT !.lim = [L.lim EXCEPT ![c] =
            [@ EXCEPT !.pc = "forget_poll", !.subject = subject,
                      !.sem = L.subjects[subject].sem]]]
    ELSE [L EXCEPT !.lim = [L.lim EXCEPT ![c] =
            [@ EXCEPT !.pc = "ret", !.ret = "Unknown", !.subject = subject]]]

\* variant: forget removes the state without waiting for the permit
forget_poll_no_wait(L, c) ==
    [L EXCEPT !.lim = [L.lim EXCEPT ![c] = [@ EXCEPT !.pc = "forget_remove"]]]

\* forget, first poll of acquire_owned(): error when closed, the permit
\* when it is free, else the caller queues
forget_poll(L, c) ==
    LET l == L.lim[c]
        sem == L.sems[l.sem]
    IN  IF sem.closed
        THEN [L EXCEPT !.lim = [L.lim EXCEPT ![c] =
                [@ EXCEPT !.pc = "ret", !.ret = "Twice"]]]
        ELSE IF sem.holder = "none"
        THEN [L EXCEPT !.sems = [L.sems EXCEPT ![l.sem].holder = c],
                       !.lim = [L.lim EXCEPT ![c] =
                          [@ EXCEPT !.pc = "forget_remove", !.permit = TRUE]]]
        ELSE [L EXCEPT !.sems = [L.sems EXCEPT ![l.sem].waiters =
                                    Append(@, c)],
                       !.lim = [L.lim EXCEPT ![c] =
                          [@ EXCEPT !.pc = "forget_wait"]]]

\* variant: close() does not wake the tasks queued on the semaphore
forget_wake_ready_permit_only(L, c) == L.sems[L.lim[c].sem].holder = c

\* forget, a later poll: the waiter was handed the permit or was woken
\* by close
forget_wake_ready(L, c) ==
    LET sem == L.sems[L.lim[c].sem] IN sem.closed \/ sem.holder = c

forget_wake(L, c) ==
    LET l == L.lim[c]
        sem == L.sems[l.sem]
    IN  IF sem.holder = c
        THEN [L EXCEPT !.lim = [L.lim EXCEPT ![c] =
                [@ EXCEPT !.pc = "forget_remove", !.permit = TRUE]]]
        ELSE [L EXCEPT !.lim = [L.lim EXCEPT ![c] =
                [@ EXCEPT !.pc = "ret", !.ret = "Twice"]]]

\* variant: forget closes the semaphore and leaves the state in the map
forget_remove_keeping_state(L, c) ==
    LET l == L.lim[c]
        closed == IF l.subject \in DOMAIN L.subjects
                  THEN [L.sems EXCEPT ![L.subjects[l.subject].sem] = close(@)]
                  ELSE L.sems
    IN  [subjects |-> L.subjects,
         sems |-> IF l.permit THEN [closed EXCEPT ![l.sem] = release(@)]
                  ELSE closed,
         lim |-> [L.lim EXCEPT ![c] =
                    [@ EXCEPT !.pc = "ret", !.ret = "Forgot",
                              !.permit = FALSE]]]

\* forget, Ok arm: under the mutex, remove the state and close its
\* semaphore; then the permit is dropped
forget_remove(L, c) ==
    LET l == L.lim[c]
        present == l.subject \in DOMAIN L.subjects
        closed == IF present
                  THEN [L.sems EXCEPT ![L.subjects[l.subject].sem] = close(@)]
                  ELSE L.sems
    IN  [subjects |-> [s \in DOMAIN L.subjects \ {l.subject} |->
                          L.subjects[s]],
         sems |-> IF l.permit THEN [closed EXCEPT ![l.sem] = release(@)]
                  ELSE closed,
         lim |-> [L.lim EXCEPT ![c] =
                    [@ EXCEPT !.pc = "ret", !.ret = "Forgot",
                              !.permit = FALSE]]]

-----------------------------------------------------------------------------
\* lonk_publisher.rs, celery_publisher.rs

\* the latest instant of the modelled runs
MaxTime == 1

\* the values of progress_interval of the modelled runs: no rate limit, and
\* the default
Intervals == {0, default_progress_interval}

\* time passes
Tick ==
    /\ clock < MaxTime
    /\ clock' = clock + 1
    /\ UNCHANGED <<varsSync, varsMsg, varsPub, varsTrk>>
    /\ UNCHANGED <<subjects, sems, lim, start, interval>>

\* the message lonk_publisher is working on
CurrentLonk == emitted[lonkRead]

LogEntry(m, outcome) ==
    [idx |-> lonkRead, ev |-> m.ev, assoc |-> m.assoc,
     series |-> m.lonk.series,
     subject |-> lim["pub"].subject, message |-> m.lonk.message,
     priority |-> m.priority, outcome |-> outcome,
     now |-> lim["pub"].now, t1 |-> clock]

\* lonk_publisher owns its limiter and is one task: from one suspension to
\* the next its code runs without a yield. run_to_await takes the limiter
\* calls of lonk_publisher from the position of lim["pub"] to the next await
\* that suspends: the publish ("sending", "running"), the wait of forget
\* for a permit ("forget_wait"), or the next recv ("recv").
RECURSIVE run_to_await(_)
run_to_await(L) ==
    LET l == L.lim["pub"] IN
    IF l.pc = "forget" THEN run_to_await(forget_enter(L, "pub", l.subject))
    ELSE IF l.pc = "forget_poll" THEN run_to_await(forget_poll(L, "pub"))
    ELSE IF l.pc = "forget_remove" THEN run_to_await(forget_remove(L, "pub"))
    ELSE IF l.pc = "lock"
    THEN run_to_await(lock_enter(L, "pub", l.subject, clock))
    ELSE IF l.pc = "lock_decide" THEN run_to_await(lock_decide(L, "pub"))
    ELSE IF l.pc = "ret"
    THEN IF l.ret \in {"TooSoon", "Busy"}
         THEN [L EXCEPT !.lim = [L.lim EXCEPT !["pub"] = Caller_new("recv")]]
         ELSE [L EXCEPT !.lim = [L.lim EXCEPT !["pub"] =
                  [Caller_new("sending") EXCEPT !.subject = l.subject]]]
    ELSE L

\* rx.recv() returns a message: subject_of, then by priority forget and
\* send_lonk (Last), send_lonk (Required) or limited_send_lonk (Optional),
\* up to the await of the publish; a refused lock skips the message
lonk_publisher_recv ==
    /\ lim["pub"].pc = "recv"
    /\ lonkRead < Len(emitted)
    /\ lonkRead' = lonkRead + 1
    /\ LET m == emitted[lonkRead + 1]
           subject == subject_of(root_subject, m.lonk.series)
           L0 == [LimiterState EXCEPT !.lim = [lim EXCEPT !["pub"] =
                    [Caller_new(IF m.priority = "Last" THEN "forget"
                                ELSE IF m.priority = "Required" THEN "sending"
                                ELSE "lock")
                        EXCEPT !.subject = subject]]]
           L1 == run_to_await(L0)
       IN  /\ SetLimiter(L1)
           /\ pubLog' = IF L1.lim["pub"].pc = "recv"
                        THEN Append(pubLog,
                                [idx |-> lonkRead + 1, ev |-> m.ev,
                                 assoc |-> m.assoc,
                                 series |-> m.lonk.series, subject |-> subject,
                                 message |-> m.lonk.message,
                                 priority |-> m.priority,
                                 outcome |-> "dropped",
                                 now |-> clock, t1 |-> clock])
                        ELSE pubLog
    /\ UNCHANGED <<varsSync, varsMsg, varsTrk>>
    /\ UNCHANGED <<celeryRead, submitted, celPc>>
    /\ UNCHANGED <<start, interval, clock>>

\* forget was waiting for the permit and is woken
lonk_publisher_forget_woken ==
    /\ lim["pub"].pc = "forget_wait"
    /\ forget_wake_ready(LimiterState, "pub")
    /\ SetLimiter(run_to_await(forget_wake(LimiterState, "pub")))
    /\ UNCHANGED <<varsSync, varsMsg, varsPub, varsTrk>>
    /\ UNCHANGED <<start, interval, clock>>

\* send_lonk: client.publish(subject, payload).await returns; an error
\* ends lonk_publisher. After a rate-limited send, lock sets last_sent and
\* drops the permit.
send_lonk ==
    /\ lim["pub"].pc \in {"sending", "running"}
    /\ \E result \in {"ok", "err"} :
          LET L == LimiterState
              L2 == IF lim["pub"].pc = "running"
                    THEN lock_finish(L, "pub", clock) ELSE L
              pc2 == IF result = "ok" THEN "recv" ELSE "failed"
          IN  /\ SetLimiter([L2 EXCEPT !.lim = [L2.lim EXCEPT !["pub"] =
                                           Caller_new(pc2)]])
              /\ pubLog' = Append(pubLog,
                    LogEntry(CurrentLonk,
                             IF result = "ok" THEN "published" ELSE "error"))
    /\ UNCHANGED <<varsSync, varsMsg, varsTrk>>
    /\ UNCHANGED <<lonkRead, celeryRead, submitted, celPc>>
    /\ UNCHANGED <<start, interval, clock>>

lonk_publisher == lonk_publisher_recv \/ lonk_publisher_forget_woken \/ send_lonk

\* one iteration of celery_publisher: an error of send_task ends it
celery_publisher ==
    /\ celPc = "run"
    /\ celeryRead < Len(celery)
    /\ celeryRead' = celeryRead + 1
    /\ \E result \in {"ok", "err"} :
          IF result = "ok"
          THEN /\ submitted' = Append(submitted, celery[celeryRead + 1])
               /\ UNCHANGED celPc
          ELSE /\ celPc' = "failed"
               /\ UNCHANGED submitted
    /\ UNCHANGED <<varsSync, varsMsg, varsLim, varsTrk>>
    /\ UNCHANGED <<lonkRead, pubLog>>

-----------------------------------------------------------------------------
\* The messenger and the two publishers, fed with the resolved events a
\* series_synchronizer may send: SpecNotify.

\* number of resolved events fed to the messenger in one run
MaxResolved == 3

\* ghost: the index of the push of `series` an event belongs to, a push
\* being the events of the series up to and including a Finish
PushOf(hist, series) ==
    Cardinality({p \in DOMAIN hist : hist[p].series = series
                                     /\ hist[p].kind = "Finish"}) + 1

NotifySource ==
    /\ nextId <= MaxResolved
    /\ \E series \in SeriesKeys, kr \in {<<"Instance", "ok">>,
                                         <<"Instance", "err">>,
                                         <<"Finish", "fin">>} :
          LET event == [series |-> series, kind |-> kr[1], id |-> nextId,
                        res |-> kr[2], assoc |-> PushOf(sent, series)]
          IN  /\ rx_register' = Append(rx_register, event)
              /\ sent' = Append(sent, event)
    /\ nextId' = nextId + 1
    /\ UNCHANGED <<rx_storetasks, srcClosed, sourced, task, completed,
                   inflight_series, spawned, forwarded, flushTasks, joined,
                   syncPc, logged>>
    /\ UNCHANGED <<varsMsg, varsPub, varsLim, varsTrk>>

InitNotify ==
    /\ rx_storetasks = <<>>
    /\ srcClosed = FALSE
    /\ sourced = <<>>
    /\ nextId = 1
    /\ task = [i \in Ids |-> "none"]
    /\ completed = <<>>
    /\ inflight_series = <<>>
    /\ spawned = {}
    /\ forwarded = {}
    /\ flushTasks = <<>>
    /\ joined = 0
    /\ syncPc = "recv"
    /\ logged = 0
    /\ rx_register = <<>>
    /\ sent = <<>>
    /\ InitMsg
    /\ InitPub
    /\ InitLim(Intervals)
    /\ InitTrk

NextNotify ==
    \/ NotifySource
    \/ messenger
    \/ lonk_publisher_recv
    \/ send_lonk
    \/ Tick

SpecNotify == InitNotify /\ [][NextNotify]_vars

-----------------------------------------------------------------------------
\* The whole pipeline of run_everything: the series state tracker feeds
\* series_synchronizer, whose output goes to the messenger and from there to
\* the two publishers: Spec.

\* the series pushed in the runs of the whole pipeline: one series, which
\* the associations push concurrently
FedSeries == {SeriesKey_new(<<"1", ".", "2">>, <<"P">>)}

\* the association has not finished
AssocOpen(a) ==
    ~\E p \in DOMAIN sourced : sourced[p].assoc = a /\ sourced[p].kind = "Finish"

\* the series keys of the instances received under the association
SeenIn(a) ==
    {sourced[p].series : p \in {q \in DOMAIN sourced : sourced[q].assoc = a}}

\* the Finish events that the open associations still have to send
OwedFinishes ==
    Cardinality({<<a, k>> \in Assocs \X FedSeries :
                    AssocOpen(a) /\ k \in SeenIn(a)})

\* On Instance: build the SeriesKey, schedule the storage write and emit
\* (SeriesKey, Instance(task handle))
TrackerInstance ==
    /\ \E a \in Assocs, k \in FedSeries :
          /\ AssocOpen(a)
          /\ nextId + OwedFinishes + (IF k \in SeenIn(a) THEN 0 ELSE 1) <= MaxFed
          /\ source_instance(k, a)
    /\ UNCHANGED <<varsMsg, varsPub, varsLim, varsTrk>>
    /\ UNCHANGED <<srcClosed, completed, inflight_series, spawned, forwarded,
                   flushTasks, joined, syncPc, logged, rx_register, sent>>

\* the orders in which a set can be enumerated
Enumerations(S) ==
    {f \in [1..Cardinality(S) -> S] : \A x \in S : \E i \in DOMAIN f : f[i] = x}

\* On Finish: remove the association and emit one (SeriesKey, Finish) per
\* series observed in the association
TrackerFinish ==
    /\ ~srcClosed
    /\ \E a \in Assocs :
          /\ AssocOpen(a)
          /\ SeenIn(a) # {}
          /\ \E order \in Enumerations(SeenIn(a)) :
                LET events == [i \in DOMAIN order |->
                                  SeriesEventFinish(order[i], nextId + i - 1, a)]
                IN  /\ rx_storetasks' = rx_storetasks \o events
                    /\ sourced' = sourced \o events
                    /\ nextId' = nextId + Len(events)
    /\ UNCHANGED <<varsMsg, varsPub, varsLim, varsTrk>>
    /\ UNCHANGED <<srcClosed, task, completed, inflight_series, spawned,
                   forwarded, flushTasks, joined, syncPc, logged, rx_register,
                   sent>>

Init ==
    /\ InitNotify
    /\ interval = default_progress_interval

Next ==
    \/ TrackerInstance
    \/ TrackerFinish
    \/ TaskResolve
    \/ receiver_loop
    \/ RegisterTask
    \/ WaitOnAllThenFlush
    \/ joiner_loop
    \/ messenger
    \/ lonk_publisher_recv
    \/ send_lonk
    \/ celery_publisher
    \/ Tick

Spec == Init /\ [][Next]_vars

----------------------------------------------------------------------------
\* association_series_state_loop.rs, pacs_file.rs, series_key_set.rs: the
\* series state tracker. A DICOM object is a record of its five required
\* tags; an absent element is <<>>, a present one <<value>>.

MaxAssocEvents == 4

RequiredTags ==
    <<"StudyInstanceUID", "SeriesInstanceUID", "SOPInstanceUID", "PatientID",
      "StudyDate">>

Some(x) == <<x>>

None == <<>>

Dcm_complete ==
    [StudyInstanceUID  |-> Some(<<"9">>),
     SeriesInstanceUID |-> Some(<<"1", ".", "2">>),
     SOPInstanceUID    |-> Some(<<"1">>),
     PatientID         |-> Some(<<"7">>),
     StudyDate         |-> Some(<<"2", "0", "2", "0", "0", "2", "2", "9">>)]

\* the objects an association may send: complete ones (a UID padded with
\* NUL, a padded PatientID), one per absent required tag, and one whose
\* StudyDate is not a date
DcmObjects ==
    {Dcm_complete,
     [Dcm_complete EXCEPT !.SOPInstanceUID = Some(<<"2">>),
                          !.SeriesInstanceUID = Some(<<"1", ".", "2", "NUL">>),
                          !.PatientID = Some(<<" ", "7">>)],
     [Dcm_complete EXCEPT !.StudyDate =
                              Some(<<"2", "0", "2", "1", "0", "2", "2", "9">>)]}
    \cup {[Dcm_complete EXCEPT ![RequiredTags[t]] = None] :
             t \in DOMAIN RequiredTags}

Digits == <<"0", "1", "2", "3", "4", "5", "6", "7", "8", "9">>

IsDigit(c) == \E i \in DOMAIN Digits : Digits[i] = c

DigitOf(c) == (CHOOSE i \in DOMAIN Digits : Digits[i] = c) - 1

RECURSIVE NumberOf(_)
NumberOf(s) ==
    IF s = <<>> THEN 0
    ELSE 10 * NumberOf(SubSeq(s, 1, Len(s) - 1)) + DigitOf(s[Len(s)])

IsLeapYear(y) == y % 4 = 0 /\ (y % 100 # 0 \/ y % 400 = 0)

DaysInMonth(y, m) ==
    IF m = 2 THEN (IF IsLeapYear(y) THEN 29 ELSE 28)
    ELSE IF m \in {4, 6, 9, 11} THEN 30
    ELSE 31

\* time::Date::parse(s, "[year][month][day]")
Date_parse(s) ==
    IF Len(s) = 8 /\ \A i \in DOMAIN s : IsDigit(s[i])
    THEN LET y == NumberOf(SubSeq(s, 1, 4))
             m == NumberOf(SubSeq(s, 5, 6))
             d == NumberOf(SubSeq(s, 7, 8))
         IN  IF m \in 1..12 /\ d \in 1..DaysInMonth(y, m)
             THEN Some([year |-> y, month |-> m, day |-> d])
             ELSE None
    ELSE None

RECURSIVE trim_start(_)
trim_start(s) ==
    IF s # <<>> /\ Head(s) = " " THEN trim_start(Tail(s)) ELSE s

RECURSIVE trim_end(_)
trim_end(s) ==
    IF s # <<>> /\ s[Len(s)] = " " THEN trim_end(SubSeq(s, 1, Len(s) - 1))
    ELSE s

\* str::trim
trim(s) == trim_end(trim_start(s))

\* the trimmed string value of an element of the object
tt(dcm, tag) == IF dcm[tag] = None THEN None ELSE Some(trim(dcm[tag][1]))

\* optional string tag, with null bytes removed
tts(dcm, tag) ==
    LET v == tt(dcm, tag)
    IN  IF v = None THEN None
        ELSE Some(SelectSeq(v[1], LAMBDA c : c # "NUL"))

\* required string tag
ttr(dcm, tag) ==
    LET v == tts(dcm, tag)
    IN  IF v = None THEN [ok |-> FALSE, error |-> "Missing", tag |-> tag]
        ELSE [ok |-> TRUE, value |-> v[1]]

\* the first required tag, in the order they are read, that is absent
RECURSIVE first_missing(_, _)
first_missing(dcm, t) ==
    IF t > Len(RequiredTags) THEN 0
    ELSE IF ~ttr(dcm, RequiredTags[t]).ok THEN t
    ELSE first_missing(dcm, t + 1)

\* PacsFileRegistrationRequest::new. The directory of the path is
\* abstracted to the values it is formatted from.
PacsFileRegistrationRequest_new(pacs_name, dcm) ==
    LET t == first_missing(dcm, 1)
    IN  IF t # 0 THEN ttr(dcm, RequiredTags[t])
        ELSE LET StudyDate_string == ttr(dcm, "StudyDate").value
                 StudyDate == Date_parse(StudyDate_string)
             IN  IF StudyDate = None
                 THEN [ok |-> FALSE, error |-> "Bad", tag |-> "StudyDate"]
                 ELSE [ok |-> TRUE,
                       value |->
                         [dir_path |->
                              <<pacs_name,
                                ttr(dcm, "PatientID").value,
                                StudyDate_string,
                                ttr(dcm, "SeriesInstanceUID").value>>,
                          PatientID |-> ttr(dcm, "PatientID").value,
                          StudyDate |-> StudyDate[1],
                          StudyInstanceUID |->
                              ttr(dcm, "StudyInstanceUID").value,
                          SeriesInstanceUID |->
                              ttr(dcm, "SeriesInstanceUID").value,
                          SOPInstanceUID |->
                              ttr(dcm, "SOPInstanceUID").value,
                          pacs_name |-> pacs_name]]

\* SeriesKeySet::from(PacsFileRegistrationRequest)
SeriesKeySet_from(request) ==
    [dir_path |-> request.dir_path,
     PatientID |-> request.PatientID,
     StudyDate |-> request.StudyDate,
     StudyInstanceUID |-> request.StudyInstanceUID,
     SeriesInstanceUID |-> request.SeriesInstanceUID,
     pacs_name |-> request.pacs_name]

Association_new(aec, pacs_address) ==
    [aec |-> aec, pacs_address |-> pacs_address, series |-> <<>>]

AssociationEvent_Start(ulid, aec, pacs_address) ==
    [type |-> "Start", ulid |-> ulid, aec |-> aec,
     pacs_address |-> pacs_address]

AssociationEvent_DicomInstance(ulid, dcm) ==
    [type |-> "DicomInstance", ulid |-> ulid, dcm |-> dcm]

AssociationEvent_Finish(ulid, ok) ==
    [type |-> "Finish", ulid |-> ulid, ok |-> ok]

PendingRegistration_Task(series, what, ulid) ==
    [series |-> series, kind |-> "Task", task |-> what, ulid |-> ulid]

PendingRegistration_End(series, ulid) ==
    [series |-> series, kind |-> "End", task |-> "none", ulid |-> ulid]

\* maybe_findscu: inserts or updates the count of the series; on an insert,
\* with a PACS address configured, a query of the PACS is wanted
maybe_findscu(series_key_set, association) ==
    IF series_key_set \in DOMAIN association.series
    THEN [association |->
              [association EXCEPT !.series[series_key_set] = @ + 1],
          findscu |-> FALSE]
    ELSE [association |->
              [association EXCEPT
                  !.series = (series_key_set :> 1) @@ association.series],
          findscu |-> association.pacs_address # None]

\* receive_dicom_instance
receive_dicom_instance(ulid, dcm, inflight) ==
    IF ulid \notin DOMAIN inflight
    THEN [result |-> "panic", messages |-> <<>>, inflight |-> inflight]
    ELSE LET association == inflight[ulid]
             r == PacsFileRegistrationRequest_new(association.aec, dcm)
         IN  IF ~r.ok
             THEN [result |-> "Err", messages |-> <<>>, inflight |-> inflight]
             ELSE LET series_key_set == SeriesKeySet_from(r.value)
                      m == maybe_findscu(series_key_set, association)
                      storage_task ==
                          PendingRegistration_Task(series_key_set, "store",
                                                   ulid)
                      findscu_tasks ==
                          PendingRegistration_Task(series_key_set, "findscu",
                                                   ulid)
                  IN  [result |-> "Ok",
                       messages |->
                           IF m.findscu
                           THEN <<storage_task, findscu_tasks>>
                           ELSE <<storage_task>>,
                       inflight |->
                           [inflight EXCEPT ![ulid] = m.association]]

\* variant: the tasks for the push counts only
finish_association_without_end(ulid, series_counts, order) ==
    [i \in DOMAIN order |->
        PendingRegistration_Task(order[i], "pushcount", ulid)]

\* finish_association: for each series of the association, in the order the
\* map enumerates them, a task for the push count, then an End for each
finish_association(ulid, series_counts, order) ==
    [i \in DOMAIN order |->
        PendingRegistration_Task(order[i], "pushcount", ulid)]
    \o [i \in DOMAIN order |-> PendingRegistration_End(order[i], ulid)]

\* match_event: the possible outcomes of handling one event
match_event(event, inflight) ==
    IF event.type = "Start"
    THEN {[result |-> "Ok", messages |-> <<>>,
           inflight |->
               (event.ulid :> Association_new(event.aec, event.pacs_address))
                   @@ inflight]}
    ELSE IF event.type = "DicomInstance"
    THEN {receive_dicom_instance(event.ulid, event.dcm, inflight)}
    ELSE IF event.ulid \notin DOMAIN inflight
    THEN {[result |-> "panic", messages |-> <<>>, inflight |-> inflight]}
    ELSE {[result |-> "Ok",
           messages |->
               finish_association(event.ulid, inflight[event.ulid].series,
                                  order),
           inflight |->
               [u \in DOMAIN inflight \ {event.ulid} |-> inflight[u]]] :
             order \in Enumerations(DOMAIN inflight[event.ulid].series)}

\* ghost: tag the messages sent with the position of the event they answer
TaggedOut(msgs, i) == [j \in DOMAIN msgs |-> msgs[j] @@ [ev |-> i]]

\* one iteration of the loop of association_series_state_loop
association_series_state_loop ==
    /\ trkPc = "run"
    /\ rx_association # <<>>
    /\ LET event == Head(rx_association)
       IN  \E r \in match_event(event, inflight_associations) :
               /\ rx_association' = Tail(rx_association)
               /\ inflight_associations' = r.inflight
               /\ trkOut' = trkOut \o TaggedOut(r.messages, Len(trkIn) + 1)
               /\ everything_ok' = (everything_ok /\ r.result # "Err")
               /\ trkIn' = Append(trkIn, [event |-> event,
                                          result |-> r.result])
               /\ trkPc' = IF r.result = "panic" THEN "panic" ELSE "run"
    /\ UNCHANGED <<scp, assocClosed>>
    /\ UNCHANGED <<varsSync, varsMsg, varsPub, varsLim, varsScp, varsPool, varsAux>>

\* the channel is closed and drained: the loop ends and the result is
\* returned
association_series_state_loop_return ==
    /\ trkPc = "run"
    /\ rx_association = <<>>
    /\ assocClosed
    /\ trkPc' = IF everything_ok THEN "ok" ELSE "err"
    /\ UNCHANGED <<scp, assocClosed, rx_association, inflight_associations,
                   everything_ok, trkIn, trkOut>>
    /\ UNCHANGED <<varsSync, varsMsg, varsPub, varsLim, varsScp, varsPool, varsAux>>

\* the value association_series_state_loop has returned: the outer Result
\* is Ok, since an error of a send returns at once, and the inner one tells
\* whether an event failed
association_series_state_loop_result ==
    [outer |-> "Ok", inner |-> IF trkPc = "ok" THEN "Ok" ELSE "Err"]

\* run_everything: tokio::try_join! of the three stages, whose value is the
\* first Err of their Results and else Ok of the tuple of their values,
\* then result.map(|_| ()), which drops the values
run_everything_result(tracker, synchronizer, messenger_result) ==
    IF tracker.outer = "Err" THEN "Err"
    ELSE IF synchronizer = "Err" THEN "Err"
    ELSE IF messenger_result = "Err" THEN "Err"
    ELSE "Ok"

\* the events sent on the channel so far
AssocEventsSent == Len(rx_association) + Len(trkIn)

\* an association is negotiated: Start is sent
ScpStart ==
    \E a \in Assocs, aec \in AETitles, pacs_address \in {None, Some("h")} :
        /\ ~assocClosed
        /\ scp[a] = "idle"
        /\ AssocEventsSent < MaxAssocEvents
        /\ scp' = [scp EXCEPT ![a] = "started"]
        /\ rx_association' =
               Append(rx_association,
                      AssociationEvent_Start(a, aec, pacs_address))
        /\ UNCHANGED <<assocClosed, inflight_associations, everything_ok,
                       trkIn, trkOut, trkPc>>
        /\ UNCHANGED <<varsSync, varsMsg, varsPub, varsLim, varsScp, varsPool, varsAux>>

\* a DICOM object is received on a negotiated association
ScpInstance ==
    \E a \in Assocs, dcm \in DcmObjects :
        /\ ~assocClosed
        /\ scp[a] = "started"
        /\ AssocEventsSent < MaxAssocEvents
        /\ rx_association' =
               Append(rx_association, AssociationEvent_DicomInstance(a, dcm))
        /\ UNCHANGED <<scp, assocClosed, inflight_associations,
                       everything_ok, trkIn, trkOut, trkPc>>
        /\ UNCHANGED <<varsSync, varsMsg, varsPub, varsLim, varsScp, varsPool, varsAux>>

\* dicom_listener_tcp_loop: when handle_association returns, with or
\* without an error, Finish is sent
ScpFinish ==
    \E a \in Assocs, ok \in BOOLEAN :
        /\ ~assocClosed
        /\ scp[a] \in {"idle", "started"}
        /\ scp[a] = "idle" => ~ok
        /\ AssocEventsSent < MaxAssocEvents
        /\ scp' = [scp EXCEPT ![a] = "finished"]
        /\ rx_association' =
               Append(rx_association, AssociationEvent_Finish(a, ok))
        /\ UNCHANGED <<assocClosed, inflight_associations, everything_ok,
                       trkIn, trkOut, trkPc>>
        /\ UNCHANGED <<varsSync, varsMsg, varsPub, varsLim, varsScp, varsPool, varsAux>>

\* dicom_listener_tcp_loop returns: the pool is shut down, no association
\* is being handled, and the sender of the channel is dropped
ScpClose ==
    /\ ~assocClosed
    /\ \A a \in Assocs : scp[a] # "started"
    /\ assocClosed' = TRUE
    /\ UNCHANGED <<scp, rx_association, inflight_associations, everything_ok,
                   trkIn, trkOut, trkPc>>
    /\ UNCHANGED <<varsSync, varsMsg, varsPub, varsLim, varsScp, varsPool, varsAux>>

InitTracker == InitNotify /\ interval = default_progress_interval

NextTracker ==
    \/ ScpStart
    \/ ScpInstance
    \/ ScpFinish
    \/ ScpClose
    \/ association_series_state_loop
    \/ association_series_state_loop_return

SpecTracker == InitTracker /\ [][NextTracker]_vars

----------------------------------------------------------------------------
\* scp.rs and listener_tcp_loop.rs: the handler of a connection. The peer
\* sends PDUs; a P-DATA PDU carries Presentation-Data-Values, of which the
\* handler reads the first. The data set of an instance arrives in
\* fragments, the last of them flagged. The bytes of a value are a
\* sequence: one fragment of a data set, or the encoding of a command set,
\* written <<command, MessageID>> with the command "echo" (C-ECHO-RQ),
\* "store" (C-STORE-RQ) or "bad" (bytes that cannot be read as a command).

\* number of PDUs received in a run
MaxPdus == 3

Fragments == {<<"d1">>, <<"d2">>}

\* the values of MessageID in the commands of a peer
MessageIds == {1, 2}

\* the encodings of the command sets a peer sends
Commands ==
    {<<c, m>> : c \in {"echo", "store"}, m \in MessageIds}
    \cup {<<"bad", 0>>}

\* the fragments of the encoding of a data set
DatasetFragments == <<"d1", "d2">>

\* the ids of presentation contexts a peer writes in its values
ContextIds == {1, 3}

\* association.presentation_contexts(): the ids that were negotiated
presentation_contexts == {1}

PDataValue(presentation_context_id, value_type, is_last, data) ==
    [presentation_context_id |-> presentation_context_id,
     value_type |-> value_type, is_last |-> is_last, data |-> data]

\* the values a peer sends
Pdvs ==
    {PDataValue(id, "Command", l, c) :
         id \in ContextIds, l \in BOOLEAN, c \in Commands}
    \cup {PDataValue(id, "Data", l, f) :
              id \in ContextIds, l \in BOOLEAN, f \in Fragments}

\* the P-DATA PDUs a peer sends: empty, holding one value, or holding the
\* command of a C-STORE followed by a value of its data set
PDatas ==
    {<<>>}
    \cup {<<v>> : v \in Pdvs}
    \cup {<<c, d>> : c \in {v \in Pdvs : /\ v.value_type = "Command"
                                           /\ v.data[1] = "store"
                                           /\ v.is_last},
                     d \in {v \in Pdvs : v.value_type = "Data"}}

\* InMemDicomObject::read_dataset_with_ts and the file meta table: the
\* object when the buffer holds a whole data set, else an error
read_dataset_with_ts(buffer) ==
    IF buffer = DatasetFragments THEN Some(Dcm_complete) ELSE None

\* InMemDicomObject::read_dataset_with_ts of the bytes of a command, then
\* the elements Command Field and Message ID: an error when the bytes
\* cannot be read
read_command(v) ==
    IF v[1] = "bad" THEN None
    ELSE Some([command_field |-> v[1], message_id |-> v[2]])

\* variant: the response reports a failure
create_cecho_response_failed(message_id) ==
    [command_field |-> "C-ECHO-RSP",
     message_id_being_responded_to |-> message_id, status |-> 1]

\* the command set of a C-ECHO-RSP: status 0x0000
create_cecho_response(message_id) ==
    [command_field |-> "C-ECHO-RSP",
     message_id_being_responded_to |-> message_id, status |-> 0]

\* the command set of a C-STORE-RSP: status 0x0000
create_cstore_response(message_id) ==
    [command_field |-> "C-STORE-RSP",
     message_id_being_responded_to |-> message_id, status |-> 0]

\* the PDU of a response: one Command value, flagged last, on the
\* presentation context of the value that was read
pdu_response(presentation_context_id, response) ==
    [type |-> "PData",
     data |-> <<PDataValue(presentation_context_id, "Command", TRUE,
                           response)>>]

\* Pdu::ReleaseRP
Pdu_ReleaseRP == [type |-> "ReleaseRP"]

\* association.send: the PDU reaches the peer when the send succeeds
send(h, pdu) == [h EXCEPT !.sent_pdus = Append(@, pdu)]

\* the arm Pdu::PData of the loop. The result is [h, store, result]: the
\* locals of the handler, the object given to the storage if any, and
\* "continue" or, when a ? returns an error, "Err"; `send_ok` tells whether
\* association.send succeeds
on_pdata(h, data, send_ok) ==
    IF data = <<>>
    THEN [h |-> h, store |-> None, result |-> "continue"]
    ELSE IF data[1].value_type = "Data" /\ ~data[1].is_last
    THEN [h |-> [h EXCEPT !.instance_buffer = @ \o data[1].data],
          store |-> None, result |-> "continue"]
    ELSE IF data[1].value_type = "Command" /\ data[1].is_last
    THEN LET obj == read_command(data[1].data)
         IN  IF obj = None
             THEN [h |-> h, store |-> None, result |-> "Err"]
             ELSE IF obj[1].command_field = "echo"
             THEN IF send_ok
                  THEN [h |-> [send(h, pdu_response(
                                          data[1].presentation_context_id,
                                          create_cecho_response(h.msgid)))
                                   EXCEPT !.instance_buffer = <<>>],
                        store |-> None, result |-> "continue"]
                  ELSE [h |-> h, store |-> None, result |-> "Err"]
             ELSE [h |-> [h EXCEPT !.msgid = obj[1].message_id,
                                   !.instance_buffer = <<>>],
                   store |-> None, result |-> "continue"]
    ELSE IF data[1].value_type = "Data" /\ data[1].is_last
    THEN LET buffer == h.instance_buffer \o data[1].data
             obj == read_dataset_with_ts(buffer)
             h2 == [h EXCEPT !.instance_buffer = buffer]
         IN  IF data[1].presentation_context_id \notin presentation_contexts
             THEN [h |-> h2, store |-> None, result |-> "Err"]
             ELSE IF obj = None
             THEN [h |-> h2, store |-> None, result |-> "Err"]
             ELSE IF send_ok
             THEN [h |-> send(h2, pdu_response(
                                      data[1].presentation_context_id,
                                      create_cstore_response(h.msgid))),
                   store |-> obj, result |-> "continue"]
             ELSE [h |-> h2, store |-> obj, result |-> "Err"]
    ELSE [h |-> h, store |-> None, result |-> "continue"]

\* ghost: how the association ended when a ? returned an error
ErrorKind(data, r) ==
    IF r.store # None \/ (data # <<>> /\ data[1].data[1] = "echo")
    THEN "send" ELSE "protocol"

\* the handler returns and dicom_listener_tcp_loop sends Finish: ok is
\* whether handle_association returned Ok
returned(h, how) ==
    [h EXCEPT !.pc = "done", !.ended = how,
              !.partial = h.instance_buffer, !.instance_buffer = <<>>]

\* Start is sent when the association is negotiated
emit_start(a, aec) == <<AssociationEvent_Start(a, aec, None)>>

\* the object read is sent as an Instance event where it is given to the
\* storage
emit_instance(a, store) ==
    IF store = None THEN <<>>
    ELSE <<AssociationEvent_DicomInstance(a, store[1])>>

\* the listener accepts a connection and the association is established,
\* or establish fails and the error is returned
handle_establish ==
    \E a \in Assocs, aec \in AETitles, established \in BOOLEAN :
        /\ conn[a].pc = "listen"
        /\ IF established
           THEN /\ conn' = [conn EXCEPT ![a].pc = "receive"]
                /\ rx_association' = rx_association \o emit_start(a, aec)
           ELSE /\ conn' = [conn EXCEPT ![a] = returned(@, "establish")]
                /\ rx_association' =
                       Append(rx_association, AssociationEvent_Finish(a, FALSE))
        /\ UNCHANGED <<stored, pdus>>
        /\ UNCHANGED <<scp, assocClosed, inflight_associations, everything_ok,
                       trkIn, trkOut, trkPc>>
        /\ UNCHANGED <<varsSync, varsMsg, varsPub, varsLim, varsPool, varsAux>>

\* association.receive() returns the P-DATA PDU `data` on the connection of
\* a, and the arm runs
receive_pdata(a, data, send_ok) ==
    /\ conn[a].pc = "receive"
    /\ conn[a].peer = "open"
    /\ pdus < MaxPdus
    /\ pdus' = pdus + 1
    /\ LET r == on_pdata(conn[a], data, send_ok)
       IN  /\ stored' = IF r.store = None THEN stored
                        ELSE Append(stored, [ulid |-> a, dcm |-> r.store[1]])
           /\ IF r.result = "Err"
              THEN /\ conn' = [conn EXCEPT ![a] =
                                  returned(r.h, ErrorKind(data, r))]
                   /\ rx_association' =
                          rx_association \o emit_instance(a, r.store)
                          \o <<AssociationEvent_Finish(a, FALSE)>>
              ELSE /\ conn' = [conn EXCEPT ![a] = r.h]
                   /\ rx_association' =
                          rx_association \o emit_instance(a, r.store)
    /\ UNCHANGED <<scp, assocClosed, inflight_associations, everything_ok,
                   trkIn, trkOut, trkPc>>
    /\ UNCHANGED <<varsSync, varsMsg, varsPub, varsLim, varsPool, varsAux>>

handle_pdata ==
    \E a \in Assocs, data \in PDatas, send_ok \in BOOLEAN :
        receive_pdata(a, data, send_ok)

\* association.receive() returns Pdu::ReleaseRQ: A-RELEASE-RP is sent,
\* an error of the send is only logged, and the loop goes on
handle_release ==
    \E a \in Assocs, send_ok \in BOOLEAN :
        /\ conn[a].pc = "receive"
        /\ conn[a].peer = "open"
        /\ pdus < MaxPdus
        /\ pdus' = pdus + 1
        /\ conn' = [conn EXCEPT ![a] =
                       [(IF send_ok THEN send(@, Pdu_ReleaseRP) ELSE @)
                           EXCEPT !.peer = "release"]]
        /\ UNCHANGED <<stored, rx_association>>
        /\ UNCHANGED <<scp, assocClosed, inflight_associations, everything_ok,
                       trkIn, trkOut, trkPc>>
        /\ UNCHANGED <<varsSync, varsMsg, varsPub, varsLim, varsPool, varsAux>>

\* the PDUs that are neither P-DATA nor A-RELEASE-RQ: A-ABORT, after which
\* the peer sends nothing, and a PDU of a type that is not known
OtherPdus == {"AbortRQ", "Unknown"}

\* association.receive() returns another PDU: the arm does nothing and the
\* loop goes on
receive_other_pdu(a, pdu) ==
    /\ conn[a].pc = "receive"
    /\ conn[a].peer = "open"
    /\ pdus < MaxPdus
    /\ pdus' = pdus + 1
    /\ conn' = [conn EXCEPT ![a].peer =
                   IF pdu = "AbortRQ" THEN "abort" ELSE @]
    /\ UNCHANGED <<stored, rx_association>>
    /\ UNCHANGED <<scp, assocClosed, inflight_associations, everything_ok,
                   trkIn, trkOut, trkPc>>
    /\ UNCHANGED <<varsSync, varsMsg, varsPub, varsLim, varsPool, varsAux>>

handle_other_pdu ==
    \E a \in Assocs, pdu \in OtherPdus : receive_other_pdu(a, pdu)

\* variant: what the buffer holds is stored when the connection ends
on_receive_error_flushing(h) ==
    [store |-> IF h.instance_buffer = <<>> THEN None ELSE Some(Dcm_complete),
     result |-> "Ok"]

\* association.receive() returns an error (the peer closed or reset the
\* connection, after a release, after an abort or without either, or the
\* bytes read are not a whole PDU): the loop is left and Ok(()) is returned
on_receive_error(h) == [store |-> None, result |-> "Ok"]

\* what a peer that neither released nor aborted did to make receive() fail
ReceiveErrors == {"drop", "truncated"}

receive_error(a, how) ==
    /\ conn[a].pc = "receive"
    /\ LET r == on_receive_error(conn[a])
       IN  /\ conn' = [conn EXCEPT ![a] = returned(@, how)]
           /\ stored' = IF r.store = None THEN stored
                        ELSE Append(stored, [ulid |-> a, dcm |-> r.store[1]])
           /\ rx_association' =
                  rx_association \o emit_instance(a, r.store)
                  \o <<AssociationEvent_Finish(a, r.result = "Ok")>>
    /\ UNCHANGED pdus
    /\ UNCHANGED <<scp, assocClosed, inflight_associations, everything_ok,
                   trkIn, trkOut, trkPc>>
    /\ UNCHANGED <<varsSync, varsMsg, varsPub, varsLim, varsPool, varsAux>>

handle_receive_error ==
    \E a \in Assocs, how \in ReceiveErrors :
        receive_error(a, IF conn[a].peer = "open" THEN how ELSE conn[a].peer)

InitScp == InitNotify /\ interval = default_progress_interval

NextScp ==
    \/ handle_establish
    \/ handle_pdata
    \/ handle_release
    \/ handle_other_pdu
    \/ handle_receive_error

SpecScp == InitScp /\ [][NextScp]_vars

----------------------------------------------------------------------------
\* listener_tcp_loop.rs and thread_pool.rs: the listener takes connections
\* and gives the handler of each, as a job, to a pool of n_threads worker
\* threads. A job is named by the number of its connection; it runs
\* handle_association and then sends Finish.

\* the events of the channel that are the Finish of job j
FinishesOf(j) ==
    {p \in DOMAIN rx_association :
        rx_association[p].type = "Finish" /\ rx_association[p].ulid = j}

\* the next item of listener.incoming().take(n): a connection, which is
\* given to pool.execute, or an error, which is recorded in the span
listener_accept ==
    \E stream_ok \in BOOLEAN :
        /\ listener.pc = "accept"
        /\ listener.taken < finite_connections
        /\ listener' = [listener EXCEPT !.taken = @ + 1]
        /\ IF stream_ok
           THEN /\ jobs' = Append(jobs, listener.taken + 1)
                /\ executed' = Append(executed, listener.taken + 1)
           ELSE UNCHANGED <<jobs, executed>>
        /\ UNCHANGED <<sender, receiver_lock, workers, started>>
        /\ UNCHANGED <<scp, assocClosed, rx_association,
                       inflight_associations, everything_ok, trkIn, trkOut,
                       trkPc>>
        /\ UNCHANGED <<varsSync, varsMsg, varsPub, varsLim, varsScp, varsAux>>

\* the iterator is exhausted: ThreadPool::shutdown drops the sender and
\* begins to join the workers
listener_shutdown ==
    /\ listener.pc = "accept"
    /\ listener.taken = finite_connections
    /\ sender' = FALSE
    /\ listener' = [listener EXCEPT !.pc = "join", !.joining = 1]
    /\ UNCHANGED <<jobs, receiver_lock, workers, executed, started>>
    /\ UNCHANGED <<scp, assocClosed, rx_association, inflight_associations,
                   everything_ok, trkIn, trkOut, trkPc>>
    /\ UNCHANGED <<varsSync, varsMsg, varsPub, varsLim, varsScp, varsAux>>

\* thread.join() of the next worker returns; after the last one shutdown
\* returns and dicom_listener_tcp_loop returns Ok(())
listener_join ==
    /\ listener.pc = "join"
    /\ workers[listener.joining].pc = "exit"
    /\ listener' = IF listener.joining = n_threads
                   THEN [listener EXCEPT !.pc = "done"]
                   ELSE [listener EXCEPT !.joining = @ + 1]
    /\ UNCHANGED <<sender, jobs, receiver_lock, workers, executed, started>>
    /\ UNCHANGED <<scp, assocClosed, rx_association, inflight_associations,
                   everything_ok, trkIn, trkOut, trkPc>>
    /\ UNCHANGED <<varsSync, varsMsg, varsPub, varsLim, varsScp, varsAux>>

\* receiver.lock(): the worker takes the mutex when it is free
worker_lock(w) ==
    /\ workers[w].pc = "lock"
    /\ receiver_lock = 0
    /\ receiver_lock' = w
    /\ workers' = [workers EXCEPT ![w].pc = "recv"]
    /\ UNCHANGED <<listener, sender, jobs, executed, started>>
    /\ UNCHANGED <<scp, assocClosed, rx_association, inflight_associations,
                   everything_ok, trkIn, trkOut, trkPc>>
    /\ UNCHANGED <<varsSync, varsMsg, varsPub, varsLim, varsScp, varsAux>>

\* variant: try_recv, which returns Err on an empty channel
recv_not_blocking(queue, has_sender) ==
    IF queue # <<>> THEN "Ok" ELSE "Err"

\* variant: a channel whose sender was dropped returns Err at once
recv_dropping_queued(queue, has_sender) ==
    IF ~has_sender THEN "Err"
    ELSE IF queue # <<>> THEN "Ok"
    ELSE "block"

\* mpsc::Receiver::recv: the oldest job; Err when the channel is empty and
\* its sender was dropped; else the call blocks
recv(queue, has_sender) ==
    IF queue # <<>> THEN "Ok"
    ELSE IF ~has_sender THEN "Err"
    ELSE "block"

\* variant: the guard lives as long as the job runs
guard_after_recv_held(w, message) == IF message = "Ok" THEN w ELSE 0

\* the guard of the mutex is a temporary of the statement
\* `let message = receiver.lock().unwrap().recv();` and is dropped at its
\* end: the holder of the mutex after it
guard_after_recv(w, message) == 0

\* recv() returns in the worker that holds the mutex: it runs the job, or
\* leaves its loop on Err
worker_recv(w) ==
    /\ workers[w].pc = "recv"
    /\ LET message == recv(jobs, sender)
       IN  /\ message # "block"
           /\ receiver_lock' = guard_after_recv(w, message)
           /\ IF message = "Ok"
              THEN /\ jobs' = Tail(jobs)
                   /\ workers' = [workers EXCEPT
                                     ![w] = [pc |-> "job", job |-> Head(jobs)]]
                   /\ started' = Append(started, Head(jobs))
              ELSE /\ workers' = [workers EXCEPT ![w].pc = "exit"]
                   /\ UNCHANGED <<jobs, started>>
    /\ UNCHANGED <<listener, sender, executed>>
    /\ UNCHANGED <<scp, assocClosed, rx_association, inflight_associations,
                   everything_ok, trkIn, trkOut, trkPc>>
    /\ UNCHANGED <<varsSync, varsMsg, varsPub, varsLim, varsScp, varsAux>>

\* the job of the worker ends: handle_association returned, Finish is sent
\* with its result, the guard is dropped if it was kept, and the worker
\* goes back to the head of its loop
worker_job_return(w) ==
    \E ok \in BOOLEAN :
        /\ workers[w].pc = "job"
        /\ rx_association' =
               Append(rx_association,
                      AssociationEvent_Finish(workers[w].job, ok))
        /\ workers' = [workers EXCEPT ![w] = Worker_new]
        /\ receiver_lock' = IF receiver_lock = w THEN 0 ELSE receiver_lock
        /\ UNCHANGED <<listener, sender, jobs, executed, started>>
        /\ UNCHANGED <<scp, assocClosed, inflight_associations, everything_ok,
                       trkIn, trkOut, trkPc>>
        /\ UNCHANGED <<varsSync, varsMsg, varsPub, varsLim, varsScp, varsAux>>

InitListener == InitNotify /\ interval = default_progress_interval

NextListener ==
    \/ listener_accept
    \/ listener_shutdown
    \/ listener_join
    \/ \E w \in 1..n_threads : worker_lock(w)
    \/ \E w \in 1..n_threads : worker_recv(w)
    \/ \E w \in 1..n_threads : worker_job_return(w)

SpecListener == InitListener /\ [][NextListener]_vars

\* every handler terminates, every thread that can run does, and the
\* listener goes on once its iterator is exhausted
FairListener ==
    /\ WF_vars(listener_shutdown)
    /\ WF_vars(listener_join)
    /\ \A w \in 1..n_threads :
           /\ WF_vars(worker_lock(w))
           /\ WF_vars(worker_recv(w))
           /\ WF_vars(worker_job_return(w))

SpecListenerFair == SpecListener /\ FairListener

----------------------------------------------------------------------------
\* pacs_file.rs and sanitize.rs: the path under which an instance is stored.
\* A string is a sequence of characters; "NUL" is the character U+0000.

\* the longest value of a tag in the modelled objects
MaxTagLen == 2

\* the characters of the values of the tags
TagChars == {"a", "7", "+", "/", " ", "NUL"}

TagStrings == UNION {[1..n -> TagChars] : n \in 0..MaxTagLen}

LowerCase ==
    <<"a", "b", "c", "d", "e", "f", "g", "h", "i", "j", "k", "l", "m", "n",
      "o", "p", "q", "r", "s", "t", "u", "v", "w", "x", "y", "z">>

UpperCase ==
    <<"A", "B", "C", "D", "E", "F", "G", "H", "I", "J", "K", "L", "M", "N",
      "O", "P", "Q", "R", "S", "T", "U", "V", "W", "X", "Y", "Z">>

\* the class [A-Za-z0-9\.\-] of the regular expression
is_valid_char(c) ==
    \/ \E i \in DOMAIN LowerCase : LowerCase[i] = c
    \/ \E i \in DOMAIN UpperCase : UpperCase[i] = c
    \/ IsDigit(c)
    \/ c \in {".", "-"}

\* the string after its longest prefix of characters outside the class
RECURSIVE skip_invalid(_)
skip_invalid(s) ==
    IF s # <<>> /\ ~is_valid_char(Head(s)) THEN skip_invalid(Tail(s)) ELSE s

\* Regex::replace_all of [^A-Za-z0-9\.\-]+ by "_": every maximal run of
\* characters outside the class becomes one "_"
RECURSIVE replace_all(_)
replace_all(s) ==
    IF s = <<>> THEN <<>>
    ELSE IF is_valid_char(Head(s)) THEN <<Head(s)>> \o replace_all(Tail(s))
    ELSE <<"_">> \o replace_all(skip_invalid(Tail(s)))

\* sanitize: NUL is removed, then the runs are replaced
sanitize(s) == replace_all(SelectSeq(s, LAMBDA c : c # "NUL"))

\* sanitize_path, which pacs_file.rs imports from sanitize.rs: every
\* component it is applied to is sanitized
sanitize_path(s) == sanitize(s)

RECURSIVE strip_zeros(_)
strip_zeros(s) ==
    IF s # <<>> /\ Head(s) = "0" THEN strip_zeros(Tail(s)) ELSE s

\* the decimal digits of u32::MAX
u32_MAX == <<"4", "2", "9", "4", "9", "6", "7", "2", "9", "5">>

\* a <= b for two strings of digits of the same length
RECURSIVE digits_leq(_, _)
digits_leq(a, b) ==
    IF a = <<>> THEN TRUE
    ELSE IF Head(a) # Head(b) THEN DigitOf(Head(a)) < DigitOf(Head(b))
    ELSE digits_leq(Tail(a), Tail(b))

\* MaybeU32::from(&str): str::parse::<u32> accepts an optional "+" and one
\* or more decimal digits whose value fits; the number is kept as its
\* digits without leading zeros, which is how Display renders it
MaybeU32_from(value) ==
    LET digits == IF value # <<>> /\ Head(value) = "+" THEN Tail(value)
                  ELSE value
        n == strip_zeros(digits)
    IN  IF /\ digits # <<>>
           /\ \A i \in DOMAIN digits : IsDigit(digits[i])
           /\ \/ Len(n) < Len(u32_MAX)
              \/ Len(n) = Len(u32_MAX) /\ digits_leq(n, u32_MAX)
        THEN [U32 |-> IF n = <<>> THEN <<"0">> ELSE n]
        ELSE [String |-> value]

\* Display of MaybeU32
MaybeU32_fmt(m) == IF "U32" \in DOMAIN m THEN m.U32 ELSE m.String

\* the format {:0>width}: zeros are put before a shorter string
pad_zeros(s, width) ==
    IF Len(s) >= width THEN s
    ELSE [i \in 1..(width - Len(s)) |-> "0"] \o s

HexDigits ==
    <<"0", "1", "2", "3", "4", "5", "6", "7", "8", "9", "a", "b", "c", "d",
      "e", "f">>

\* a 64-bit value is the sequence of its 16 hexadecimal digits, each in
\* 0..15, the most significant first
RECURSIVE strip_leading(_)
strip_leading(h) ==
    IF Len(h) > 1 /\ Head(h) = 0 THEN strip_leading(Tail(h)) ELSE h

\* hash: format!("{:x}", seahash::hash(data)), h being the value of the hash
hash(h) ==
    LET d == strip_leading(h) IN [i \in DOMAIN d |-> HexDigits[d[i] + 1]]

\* &s[..7]: the first 7 bytes, a panic when the string is shorter
slice_to_7(s) == IF Len(s) < 7 THEN "panic" ELSE SubSeq(s, 1, 7)

Lit_SERVICES_PACS ==
    <<"S", "E", "R", "V", "I", "C", "E", "S", "/", "P", "A", "C", "S", "/">>

Lit_StudyDescription ==
    <<"S", "t", "u", "d", "y", "D", "e", "s", "c", "r", "i", "p", "t", "i",
      "o", "n">>

Lit_AccessionNumber ==
    <<"A", "c", "c", "e", "s", "s", "i", "o", "n", "N", "u", "m", "b", "e",
      "r">>

Lit_SeriesNumber ==
    <<"S", "e", "r", "i", "e", "s", "N", "u", "m", "b", "e", "r">>

Lit_SeriesDescription ==
    <<"S", "e", "r", "i", "e", "s", "D", "e", "s", "c", "r", "i", "p", "t",
      "i", "o", "n">>

Lit_InstanceNumber ==
    <<"I", "n", "s", "t", "a", "n", "c", "e", "N", "u", "m", "b", "e", "r">>

Lit_dcm == <<".", "d", "c", "m">>

\* Option::unwrap_or
unwrap_or(option, default) == IF option = None THEN default ELSE option[1]

\* the format! of the path in PacsFileRegistrationRequest::new, for an
\* object that has its required tags; h is the hash of SeriesInstanceUID
path_of(pacs_name, dcm, h) ==
    LET InstanceNumber ==
            IF tt(dcm, "InstanceNumber") = None THEN None
            ELSE Some(MaybeU32_from(tt(dcm, "InstanceNumber")[1]))
        SeriesNumber ==
            IF tt(dcm, "SeriesNumber") = None THEN None
            ELSE Some(MaybeU32_from(tt(dcm, "SeriesNumber")[1]))
        prefix == slice_to_7(hash(h))
    IN  IF prefix = "panic" THEN "panic"
        ELSE Lit_SERVICES_PACS
             \o sanitize_path(pacs_name) \o <<"/">>
             \o sanitize_path(ttr(dcm, "PatientID").value) \o <<"-">>
             \o sanitize_path(unwrap_or(tts(dcm, "PatientName"), <<>>))
             \o <<"-">>
             \o sanitize_path(unwrap_or(tts(dcm, "PatientBirthDate"), <<>>))
             \o <<"/">>
             \o sanitize_path(unwrap_or(tts(dcm, "StudyDescription"),
                                        Lit_StudyDescription))
             \o <<"-">>
             \o sanitize_path(unwrap_or(tts(dcm, "AccessionNumber"),
                                        Lit_AccessionNumber))
             \o <<"-">>
             \o sanitize_path(ttr(dcm, "StudyDate").value) \o <<"/">>
             \o pad_zeros(MaybeU32_fmt(unwrap_or(SeriesNumber,
                              [String |-> Lit_SeriesNumber])), 5)
             \o <<"-">>
             \o sanitize_path(unwrap_or(tts(dcm, "SeriesDescription"),
                                        Lit_SeriesDescription))
             \o <<"-">> \o prefix \o <<"/">>
             \o pad_zeros(MaybeU32_fmt(unwrap_or(InstanceNumber,
                              [String |-> Lit_InstanceNumber])), 4)
             \o <<"-">>
             \o sanitize_path(ttr(dcm, "SOPInstanceUID").value)
             \o Lit_dcm

\* the objects whose paths are derived: the required tags are present, the
\* optional ones absent or of any value
PathObjects ==
    {Dcm_complete @@
         [PatientName |-> pn, PatientBirthDate |-> None,
          StudyDescription |-> None, AccessionNumber |-> None,
          SeriesDescription |-> sd, SeriesNumber |-> sn,
          InstanceNumber |-> nr] :
        pn \in {None, Some(<<"NUL", "/">>)},
        sd \in {None, Some(<<"/", " ">>)},
        sn \in {None} \cup {Some(v) : v \in TagStrings},
        nr \in {None, Some(<<"7">>), Some(<<"NUL">>)}}

\* the values of a 64-bit hash in the modelled calls: k zero digits, then
\* one digit d repeated
HashValues ==
    {[i \in 1..16 |-> IF i <= k THEN 0 ELSE d] : k \in 0..16, d \in 1..15}

\* the value the modelled calls of PacsFileRegistrationRequest::new take
\* for the hash of the SeriesInstanceUID of the object
SomeHash == [i \in 1..16 |-> IF i <= 2 THEN 0 ELSE 10]

\* PacsFileRegistrationRequest::new builds the path of an object; one call
\* is followed, since a call depends on no other
PacsFileRegistrationRequest_path ==
    \E dcm \in PathObjects, pacs_name \in AETitles :
        /\ call = NoCall
        /\ call' = [fn |-> "path", dcm |-> dcm,
                    result |-> path_of(pacs_name, dcm, SomeHash)]
        /\ UNCHANGED <<varsSync, varsMsg, varsPub, varsLim, varsScp, varsPool,
                       chris>>
        /\ UNCHANGED <<scp, assocClosed, rx_association,
                       inflight_associations, everything_ok, trkIn, trkOut,
                       trkPc>>

\* the component of the path that is made of the hash
hash_component ==
    \E h \in HashValues :
        /\ call = NoCall
        /\ call' = [fn |-> "hash", h |-> h, hex |-> hash(h),
                    result |-> slice_to_7(hash(h))]
        /\ UNCHANGED <<varsSync, varsMsg, varsPub, varsLim, varsScp, varsPool,
                       chris>>
        /\ UNCHANGED <<scp, assocClosed, rx_association,
                       inflight_associations, everything_ok, trkIn, trkOut,
                       trkPc>>

InitPath == InitNotify /\ interval = default_progress_interval

NextPath == PacsFileRegistrationRequest_path \/ hash_component

SpecPath == InitPath /\ [][NextPath]_vars

----------------------------------------------------------------------------
\* run_everything.rs: the end of the pipeline. The listener and the tracker
\* are the source (srcClosed: the listener has returned, the tracker has
\* drained its channel and dropped tx_storetasks); the synchronizer sends the
\* resolved events of NotifySource until it returns; the messenger and the
\* two publishers are the code of SpecNotify. The position of run_everything
\* is kept in `call`.

\* the synchronizer forwards a resolved event: it has not returned, and the
\* messenger still holds the receiver
ShutdownSource ==
    /\ call = NoCall
    /\ syncPc # "returned"
    /\ msgPc = "run"
    /\ NotifySource

\* messenger: receiver.recv() returns None, the channel being closed and
\* empty, and the function returns Ok
messenger_return ==
    /\ msgPc = "run"
    /\ rx_register = <<>>
    /\ syncPc = "returned"
    /\ msgPc' = "returned"
    /\ UNCHANGED <<rx_storetasks, srcClosed, sourced, nextId, task, completed,
                   inflight_series, spawned, forwarded, flushTasks, joined,
                   syncPc, logged, rx_register, sent>>
    /\ UNCHANGED <<counts, emitted, celery>>
    /\ UNCHANGED <<varsPub, varsLim, varsTrk>>

\* the senders of the publishers' channels were dropped by run_everything
PublisherChannelsClosed == call # NoCall /\ call.fn = "run_everything"

\* try_join! of the three stages completes, with the first error or when
\* all have returned; the listener is joined; tx_lonk and tx_celery are
\* dropped
run_everything_join ==
    /\ call = NoCall
    /\ \/ msgPc = "failed"
       \/ syncPc = "returned" /\ msgPc = "returned"
    /\ srcClosed
    /\ call' = [fn |-> "run_everything", pc |-> "celery_handle",
                result |-> run_everything_result(
                               [outer |-> "Ok", inner |-> "Ok"], "Ok",
                               IF msgPc = "failed" THEN "Err" ELSE "Ok")]
    /\ UNCHANGED <<varsSync, varsMsg, varsPub, varsLim, varsScp, varsPool,
                   chris>>
    /\ UNCHANGED <<scp, assocClosed, rx_association, inflight_associations,
                   everything_ok, trkIn, trkOut, trkPc>>

\* the task of nats_handle: lonk_publisher returns Ok when its channel is
\* closed and empty; then client.flush() and client.drain(), which can fail
lonk_publisher_return ==
    /\ PublisherChannelsClosed
    /\ lim["pub"].pc = "recv"
    /\ lonkRead = Len(emitted)
    /\ \E result \in {"ok", "err"} :
          lim' = [lim EXCEPT !["pub"] =
                     Caller_new(IF result = "ok" THEN "drained"
                                ELSE "failed")]
    /\ UNCHANGED <<varsSync, varsMsg, varsPub, varsTrk>>
    /\ UNCHANGED <<subjects, sems, start, interval, clock>>

\* the task of celery_handle: celery_publisher returns Ok when its channel
\* is closed and empty; then celery.close(), which can fail
celery_publisher_return ==
    /\ PublisherChannelsClosed
    /\ celPc = "run"
    /\ celeryRead = Len(celery)
    /\ \E result \in {"ok", "err"} :
          celPc' = IF result = "ok" THEN "closed" ELSE "failed"
    /\ UNCHANGED <<varsSync, varsMsg, varsLim, varsTrk>>
    /\ UNCHANGED <<lonkRead, celeryRead, submitted, pubLog>>

\* celery_handle.await??: an error of the task returns from run_everything
run_everything_celery_handle ==
    /\ PublisherChannelsClosed
    /\ call.pc = "celery_handle"
    /\ celPc \in {"closed", "failed"}
    /\ call' = IF celPc = "failed"
               THEN [call EXCEPT !.pc = "returned", !.result = "Err"]
               ELSE [call EXCEPT !.pc = "nats_handle"]
    /\ UNCHANGED <<varsSync, varsMsg, varsPub, varsLim, varsScp, varsPool,
                   chris>>
    /\ UNCHANGED <<scp, assocClosed, rx_association, inflight_associations,
                   everything_ok, trkIn, trkOut, trkPc>>

\* nats_handle.await??, then result.map(|_| ())
run_everything_nats_handle ==
    /\ PublisherChannelsClosed
    /\ call.pc = "nats_handle"
    /\ lim["pub"].pc \in {"drained", "failed"}
    /\ call' = [call EXCEPT
                   !.pc = "returned",
                   !.result = IF lim["pub"].pc = "failed" THEN "Err" ELSE @]
    /\ UNCHANGED <<varsSync, varsMsg, varsPub, varsLim, varsScp, varsPool,
                   chris>>
    /\ UNCHANGED <<scp, assocClosed, rx_association, inflight_associations,
                   everything_ok, trkIn, trkOut, trkPc>>

InitShutdown == InitNotify /\ interval = default_progress_interval

NextShutdown ==
    \/ ShutdownSource
    \/ SourceClose
    \/ receiver_loop_end
    \/ series_synchronizer_return
    \/ messenger
    \/ messenger_return
    \/ lonk_publisher_recv
    \/ send_lonk
    \/ lonk_publisher_return
    \/ celery_publisher
    \/ celery_publisher_return
    \/ run_everything_join
    \/ run_everything_celery_handle
    \/ run_everything_nats_handle
    \/ Tick

SpecShutdown == InitShutdown /\ [][NextShutdown]_vars

----------------------------------------------------------------------------
\* cube_sender.rs: ChrisSender. One thread takes the association events and
\* turns each into jobs (prepare_jobs_for); the jobs run on the threads of
\* the pool "cube_pusher". The map of the associations is behind a mutex, so
\* a call that holds the lock is one step.

\* the DICOM instances received by one association
MaxInstances == 2

\* the threads of the pool that runs the jobs
pusher_threads == 2

\* the series of the instances; "invalid" is an instance that misses a
\* required tag
ChrisSeries == {"s1", "s2"}

ChrisInstances == ChrisSeries \cup {"invalid"}

\* SeriesProgress::default
SeriesProgress_default == [received |-> 1, pushed |-> 0]

\* SeriesProgress::is_uptodate
is_uptodate(progress) == progress.received = progress.pushed

\* Association::new of cube_sender.rs
ChrisAssociation_new ==
    [series |-> [k \in ChrisSeries |-> None], finished |-> FALSE]

\* association.series.values().all(SeriesProgress::is_uptodate)
all_uptodate(association) ==
    \A k \in ChrisSeries :
        association.series[k] # None => is_uptodate(association.series[k][1])

\* the result of a call on the map: the map after it, the value returned and
\* whether the call panicked
MapResult(associations, value, panic) ==
    [associations |-> associations, returned |-> value, panic |-> panic]

\* increment_pushed that does not look at the flag finished
increment_pushed_ignoring_finished(associations, uuid, series_key) ==
    IF associations[uuid] = None
    THEN MapResult(associations, None, TRUE)
    ELSE LET removed == [associations EXCEPT ![uuid] = None]
             association == associations[uuid][1]
         IN  IF association.series[series_key] = None
             THEN MapResult(removed, None, TRUE)
             ELSE LET series == association.series[series_key][1]
                      pushed == [series EXCEPT !.pushed = @ + 1]
                      after == [association EXCEPT
                                    !.series[series_key] = Some(pushed)]
                  IN  IF pushed.pushed > pushed.received
                      THEN MapResult(removed, None, TRUE)
                      ELSE IF all_uptodate(after)
                      THEN MapResult(removed, Some(after), FALSE)
                      ELSE MapResult(
                               [associations EXCEPT ![uuid] = Some(after)],
                               None, FALSE)

\* ChrisSenderInternal::increment_pushed: one more file of the series was
\* pushed; the association is taken out of the map and returned when it is
\* finished and every series is up to date
increment_pushed(associations, uuid, series_key) ==
    IF associations[uuid] = None
    THEN MapResult(associations, None, TRUE)
    ELSE LET removed == [associations EXCEPT ![uuid] = None]
             association == associations[uuid][1]
         IN  IF association.series[series_key] = None
             THEN MapResult(removed, None, TRUE)
             ELSE LET series == association.series[series_key][1]
                      pushed == [series EXCEPT !.pushed = @ + 1]
                      after == [association EXCEPT
                                    !.series[series_key] = Some(pushed)]
                  IN  IF pushed.pushed > pushed.received
                      THEN MapResult(removed, None, TRUE)
                      ELSE IF after.finished /\ all_uptodate(after)
                      THEN MapResult(removed, Some(after), FALSE)
                      ELSE MapResult(
                               [associations EXCEPT ![uuid] = Some(after)],
                               None, FALSE)

\* ChrisSender::start_association; a second association of the same UUID
\* panics after the insert
start_association(associations, uuid) ==
    MapResult([associations EXCEPT ![uuid] = Some(ChrisAssociation_new)], None,
              associations[uuid] # None)

\* ChrisSender::set_association_finished: the jobs to run are returned
set_association_finished(associations, uuid, ok) ==
    IF associations[uuid] # None
    THEN LET association == associations[uuid][1]
         IN  IF all_uptodate(association)
             THEN MapResult([associations EXCEPT ![uuid] = None],
                            <<[action |-> "Finalize", uuid |-> uuid,
                               association |-> association]>>, FALSE)
             ELSE MapResult(
                      [associations EXCEPT
                          ![uuid] = Some([association EXCEPT
                                              !.finished = TRUE])],
                      <<>>, FALSE)
    ELSE MapResult(associations, <<>>, ok)

\* ChrisSender::jobs_for_instance: the jobs to run are returned; dcm is the
\* series of the instance or "invalid"
jobs_for_instance(associations, uuid, dcm) ==
    IF associations[uuid] = None
    THEN MapResult(associations, <<>>, TRUE)
    ELSE IF dcm = "invalid"
    THEN MapResult(associations, <<>>, FALSE)
    ELSE LET association == associations[uuid][1]
             PushDicom == [action |-> "PushDicom", uuid |-> uuid,
                           series |-> dcm]
         IN  IF association.series[dcm] # None
             THEN MapResult(
                      [associations EXCEPT
                          ![uuid] = Some([association EXCEPT
                              !.series[dcm] = Some([@[1] EXCEPT
                                                 !.received = @ + 1])])],
                      <<PushDicom>>, FALSE)
             ELSE MapResult(
                      [associations EXCEPT
                          ![uuid] = Some([association EXCEPT
                              !.series[dcm] = Some(SeriesProgress_default)])],
                      <<PushDicom,
                        [action |-> "GetNumberOfRelatedInstances",
                         uuid |-> uuid, series |-> dcm]>>, FALSE)

\* ChrisSender::prepare_jobs_for
prepare_jobs_for(associations, event) ==
    CASE event.type = "Start" ->
             LET r == start_association(associations, event.uuid)
             IN  MapResult(r.associations, <<>>, r.panic)
      [] event.type = "DicomInstance" ->
             jobs_for_instance(associations, event.uuid, event.dcm)
      [] event.type = "Finish" ->
             set_association_finished(associations, event.uuid, event.ok)

\* the events one association can send next: Start first, unless the client
\* never gave its AE title and the association fails; then the instances;
\* Finish last
NextEvents(uuid) ==
    CASE chris.phase[uuid] = "new" ->
             {[type |-> "Start", uuid |-> uuid],
              [type |-> "Finish", uuid |-> uuid, ok |-> FALSE]}
      [] chris.phase[uuid] = "started" ->
             {[type |-> "Finish", uuid |-> uuid, ok |-> ok] :
                  ok \in BOOLEAN}
             \cup {[type |-> "DicomInstance", uuid |-> uuid, dcm |-> dcm] :
                       dcm \in IF chris.fed[uuid] < MaxInstances
                               THEN ChrisInstances ELSE {}}
      [] OTHER -> {}

PhaseAfter(event, phase) ==
    CASE event.type = "Start" -> "started"
      [] event.type = "DicomInstance" -> phase
      [] event.type = "Finish" ->
             IF phase = "new" THEN "ignored" ELSE "finished"

UnchangedByChris ==
    /\ UNCHANGED <<varsSync, varsMsg, varsPub, varsLim, varsScp, varsPool,
                   call>>
    /\ UNCHANGED <<scp, assocClosed, rx_association, inflight_associations,
                   everything_ok, trkIn, trkOut, trkPc>>

\* run_chris_pusher: an event is received and its jobs are given to the pool
run_chris_pusher ==
    \E uuid \in ChrisUuids :
        \E event \in NextEvents(uuid) :
            LET r == prepare_jobs_for(chris.associations, event)
            IN  /\ ~chris.panic
                /\ chris' = [chris EXCEPT
                       !.associations = r.associations,
                       !.pool = @ \o r.returned,
                       !.phase[uuid] = PhaseAfter(event, @),
                       !.fed[uuid] =
                           IF event.type = "DicomInstance"
                           THEN @ + 1 ELSE @,
                       !.panic = r.panic]
                /\ UnchangedByChris

RemoveAt(s, i) == SubSeq(s, 1, i - 1) \o SubSeq(s, i + 1, Len(s))

\* push_dicom: the file is stored, the counter is incremented and the end of
\* the association is registered when increment_pushed returns it
push_dicom(chris_sender, uuid, series_key) ==
    LET r == increment_pushed(chris_sender.associations, uuid, series_key)
    IN  [chris_sender EXCEPT
            !.associations = r.associations,
            !.finalized[uuid] = IF r.returned # None THEN @ + 1 ELSE @,
            !.panic = r.panic]

\* ChrisSenderJob::run
ChrisSenderJob_run(chris_sender, job) ==
    CASE job.action = "GetNumberOfRelatedInstances" -> chris_sender
      [] job.action = "PushDicom" ->
             push_dicom(chris_sender, job.uuid, job.series)
      [] job.action = "Finalize" ->
             [chris_sender EXCEPT !.finalized[job.uuid] = @ + 1]

\* a thread of the pool runs a job: the jobs are begun in the order they
\* were given, pusher_threads of them at a time, and end in any order
job_run ==
    \E i \in 1..Len(chris.pool) :
        /\ i <= pusher_threads
        /\ ~chris.panic
        /\ chris' = [ChrisSenderJob_run(chris, chris.pool[i]) EXCEPT
                         !.pool = RemoveAt(chris.pool, i)]
        /\ UnchangedByChris

InitChris == InitNotify /\ interval = default_progress_interval

NextChris == run_chris_pusher \/ job_run

SpecChris == InitChris /\ [][NextChris]_vars

----------------------------------------------------------------------------
\* cube_client.rs and chris.rs: register_file, which sends the registration
\* request of a file to CUBE and tries again after some errors. A response
\* is the HTTP status of the answer, 0 standing for an error that has no
\* status (the connection failed).

\* the largest number of retries configured in the modelled calls, besides
\* the largest u16
MaxRetries == 3

\* the values of the field retries, a u16
RetriesValues == 0..MaxRetries \cup {2^16 - 1}

\* the statuses of the modelled responses: success, two errors that are
\* retried, one that is not, and an error without status
Statuses == {200, 503, 409, 400, 0}

RETRYABLE_STATUS == {500, 502, 503, 504, 507, 408, 409, 429}

\* should_retry: the error has a status and it is one of RETRYABLE_STATUS
should_retry(e) == e # 0 /\ e \in RETRYABLE_STATUS

\* 2u64.pow(attempt) overflows from attempt 64 on, which is a panic when
\* overflow is checked
backoff_panics(attempt, overflow_checks) == attempt >= 64 /\ overflow_checks

\* backoff: min(2u64.pow(attempt), 20) seconds; a power that overflowed
\* without a panic is 0
backoff(attempt) ==
    IF attempt >= 64 THEN 0
    ELSE IF attempt >= 5 THEN 20
    ELSE IF 2^attempt < 20 THEN 2^attempt ELSE 20

\* the loop `for attempt in 1..max_retries` of register_file from the
\* iteration `attempt` on, and the statement after it; `responses` gives
\* the answer to each request, `r` holds what was done so far: the number of
\* requests sent, the sleeps, and last_error
RECURSIVE register_file_loop(_, _, _, _, _, _)
register_file_loop(attempt, max_retries, retries, responses, overflow_checks, r) ==
    IF attempt >= max_retries
    THEN IF r.last_error = None
         THEN [r EXCEPT !.result = "panic"]
         ELSE [r EXCEPT !.result = "Err", !.error = r.last_error[1]]
    ELSE LET e == responses[attempt]
             requested == [r EXCEPT !.requests = @ + 1]
         IN  IF e = 200 THEN [requested EXCEPT !.result = "Ok"]
             ELSE IF should_retry(e)
             THEN LET duration == backoff(attempt)
                  IN  IF /\ attempt # retries
                         /\ backoff_panics(attempt, overflow_checks)
                      THEN [requested EXCEPT !.result = "panic"]
                      ELSE register_file_loop(
                               attempt + 1, max_retries, retries, responses,
                               overflow_checks,
                               [requested EXCEPT
                                   !.sleeps = IF attempt # retries
                                              THEN Append(@, duration)
                                              ELSE @,
                                   !.last_error = Some(e)])
             ELSE [requested EXCEPT !.result = "Err", !.error = e]

\* register_file: max_retries = self.retries + 1 in u16, an addition that
\* panics on overflow when overflow is checked and wraps else
register_file(retries, responses, overflow_checks) ==
    LET r0 == [requests |-> 0, sleeps |-> <<>>, last_error |-> None,
               result |-> "none", error |-> 0]
    IN  IF retries + 1 >= 2^16 /\ overflow_checks
        THEN [r0 EXCEPT !.result = "panic"]
        ELSE register_file_loop(1, (retries + 1) % 2^16, retries, responses,
                                overflow_checks, r0)

\* a call of register_file: the number of retries configured, the answers
\* of CUBE and the build are any
register_file_call ==
    \E retries \in RetriesValues,
       responses \in [1..(MaxRetries + 1) -> Statuses],
       overflow_checks \in BOOLEAN :
        /\ call = NoCall
        /\ call' = [fn |-> "register_file", retries |-> retries,
                    responses |-> responses,
                    returned |->
                        register_file(retries, responses, overflow_checks)]
        /\ UNCHANGED <<varsSync, varsMsg, varsPub, varsLim, varsScp, varsPool,
                       chris>>
        /\ UNCHANGED <<scp, assocClosed, rx_association,
                       inflight_associations, everything_ok, trkIn, trkOut,
                       trkPc>>

InitRetry == InitNotify /\ interval = default_progress_interval

NextRetry == register_file_call

SpecRetry == InitRetry /\ [][NextRetry]_vars

----------------------------------------------------------------------------
\* limiter.rs: SubjectLimiter used by concurrent tasks. Each task calls lock
\* or forget; the calls advance one step at a time, a step being the code
\* between two points where another task can run.

\* the subject states created in a run
MaxStates == 2

LimCallers == Callers \ {"pub"}

\* the tasks that call lock and the tasks that call forget
LockTasks == {"t1", "t2"}

ForgetTasks == {"t2", "t3"}

LimSubjects == {subject_of(root_subject, k) : k \in SeriesKeys}

\* the locals of a call that are not read again are dropped: now and
\* last_sent after the two tests of lock, the subject and the semaphore when
\* lock returns
drop_locals(L, c) ==
    LET l == L.lim[c]
        l1 == IF l.pc = "lock_decide" THEN l
              ELSE [l EXCEPT !.now = 0, !.last_sent = 0]
        l2 == IF l.pc = "ret" /\ l.ret \in {"TooSoon", "Busy", "Some"}
              THEN [l1 EXCEPT !.subject = <<>>, !.sem = 0]
              ELSE l1
    IN  [L EXCEPT !.lim = [L.lim EXCEPT ![c] = l2]]

\* a task calls lock(subject, f): lines 74-82
SubjectLimiter_lock ==
    \E c \in LockTasks, subject \in LimSubjects :
        /\ lim[c].pc = "idle"
        /\ subject \notin DOMAIN subjects => Len(sems) < MaxStates
        /\ SetLimiter(drop_locals(lock_enter(LimiterState, c, subject, clock), c))
        /\ UNCHANGED <<start, interval, clock>>
        /\ UNCHANGED <<varsSync, varsMsg, varsPub, varsTrk>>

\* lines 83-86 and 93-95
SubjectLimiter_lock_decide ==
    \E c \in LimCallers :
        /\ lim[c].pc = "lock_decide"
        /\ SetLimiter(drop_locals(lock_decide(LimiterState, c), c))
        /\ UNCHANGED <<start, interval, clock>>
        /\ UNCHANGED <<varsSync, varsMsg, varsPub, varsTrk>>

\* line 87: f.await completes
SubjectLimiter_f_returns ==
    \E c \in LimCallers :
        /\ lim[c].pc = "running"
        /\ lim' = [lim EXCEPT ![c].pc = "f_done"]
        /\ UNCHANGED <<subjects, sems, start, interval, clock>>
        /\ UNCHANGED <<varsSync, varsMsg, varsPub, varsTrk>>

\* lines 88-92
SubjectLimiter_lock_finish ==
    \E c \in LimCallers :
        /\ lim[c].pc = "f_done"
        /\ SetLimiter(drop_locals(lock_finish(LimiterState, c, clock), c))
        /\ UNCHANGED <<start, interval, clock>>
        /\ UNCHANGED <<varsSync, varsMsg, varsPub, varsTrk>>

\* a task calls forget(subject): lines 99-105
SubjectLimiter_forget ==
    \E c \in ForgetTasks, subject \in LimSubjects :
        /\ lim[c].pc = "idle"
        /\ SetLimiter(drop_locals(forget_enter(LimiterState, c, subject), c))
        /\ UNCHANGED <<start, interval, clock>>
        /\ UNCHANGED <<varsSync, varsMsg, varsPub, varsTrk>>

\* line 108: acquire.await, polled for the first time
SubjectLimiter_forget_poll ==
    \E c \in LimCallers :
        /\ lim[c].pc = "forget_poll"
        /\ SetLimiter(drop_locals(forget_poll(LimiterState, c), c))
        /\ UNCHANGED <<start, interval, clock>>
        /\ UNCHANGED <<varsSync, varsMsg, varsPub, varsTrk>>

\* line 108: acquire.await, woken
SubjectLimiter_forget_wake ==
    \E c \in LimCallers :
        /\ lim[c].pc = "forget_wait"
        /\ forget_wake_ready(LimiterState, c)
        /\ SetLimiter(drop_locals(forget_wake(LimiterState, c), c))
        /\ UNCHANGED <<start, interval, clock>>
        /\ UNCHANGED <<varsSync, varsMsg, varsPub, varsTrk>>

\* lines 109-114
SubjectLimiter_forget_remove ==
    \E c \in LimCallers :
        /\ lim[c].pc = "forget_remove"
        /\ SetLimiter(drop_locals(forget_remove(LimiterState, c), c))
        /\ UNCHANGED <<start, interval, clock>>
        /\ UNCHANGED <<varsSync, varsMsg, varsPub, varsTrk>>

\* the call returns to the task, which may call again
SubjectLimiter_return ==
    \E c \in LimCallers :
        /\ lim[c].pc = "ret"
        /\ lim' = [lim EXCEPT ![c] = Caller_new("idle")]
        /\ UNCHANGED <<subjects, sems, start, interval, clock>>
        /\ UNCHANGED <<varsSync, varsMsg, varsPub, varsTrk>>

InitLimiter == InitNotify

NextLimiter ==
    \/ SubjectLimiter_lock
    \/ SubjectLimiter_lock_decide
    \/ SubjectLimiter_f_returns
    \/ SubjectLimiter_lock_finish
    \/ SubjectLimiter_forget
    \/ SubjectLimiter_forget_poll
    \/ SubjectLimiter_forget_wake
    \/ SubjectLimiter_forget_remove
    \/ SubjectLimiter_return
    \/ Tick

SpecLimiter == InitLimiter /\ [][NextLimiter]_vars

----------------------------------------------------------------------------
\* Properties of series_synchronizer (checked under SpecSync).

SeriesOf(hist) == {hist[p].series : p \in DOMAIN hist}

\* the precondition of C1: upstream, no Instance(k) follows a Finish(k)
InstancesPrecedeFinish(k) ==
    \A p, q \in DOMAIN sourced :
        (p < q /\ sourced[p].series = k /\ sourced[p].kind = "Finish"
               /\ sourced[q].series = k)
            => sourced[q].kind # "Instance"

\* C1: for every key whose Instances all precede its Finish upstream, a
\* Finish of the key is sent downstream only after the result of every
\* Instance of the key was sent, and no Instance of the key is sent after it,
\* whatever the order in which the task handles resolve.
C1_FinishIsLast ==
    \A k \in SeriesOf(sourced) :
        InstancesPrecedeFinish(k) =>
            \A p \in DOMAIN sent :
                (sent[p].kind = "Finish" /\ sent[p].series = k) =>
                    /\ \A q \in DOMAIN sourced :
                          (sourced[q].kind = "Instance" /\ sourced[q].series = k)
                              => \E r \in 1..(p - 1) :
                                    /\ sent[r].kind = "Instance"
                                    /\ sent[r].id = sourced[q].id
                    /\ \A r \in DOMAIN sent :
                          r > p => ~(sent[r].kind = "Instance" /\ sent[r].series = k)

\* C1's case: a key received two Instances and then its Finish, the handles
\* resolved in the reverse order, and the Finish went downstream.
C1_Witness ==
    \E k \in SeriesOf(sourced) :
        /\ InstancesPrecedeFinish(k)
        /\ \E p \in DOMAIN sent : sent[p].kind = "Finish" /\ sent[p].series = k
        /\ \E i, j \in Ids :
              /\ i < j
              /\ PosOf(sourced, i, "Instance") > 0
              /\ PosOf(sourced, j, "Instance") > 0
              /\ sourced[PosOf(sourced, i, "Instance")].series = k
              /\ sourced[PosOf(sourced, j, "Instance")].series = k
              /\ CompletedAt(j) > 0
              /\ CompletedAt(j) < CompletedAt(i)

\* C2 as stated: the Instances of one key go downstream in the order in which
\* their task handles resolved.
C2_TaskCompletionOrder ==
    \A p, q \in DOMAIN sent :
        (p < q /\ sent[p].kind = "Instance" /\ sent[q].kind = "Instance"
               /\ sent[p].series = sent[q].series)
            => CompletedAt(sent[p].id) < CompletedAt(sent[q].id)

\* C2 as amended: an Instance goes downstream only after its own handle
\* resolved; the forwarder of a resolved handle can always send, whatever the
\* state of every other handle (no forced order); and the receive loop can
\* always take the next upstream event, whatever tasks are pending.
C2_NoForcedOrderNoBlocking ==
    /\ \A p \in DOMAIN sent :
          sent[p].kind = "Instance" => CompletedAt(sent[p].id) > 0
    /\ \A i \in spawned \ forwarded :
          task[i] \in {"ok", "err"} => ENABLED register_task(i)
    /\ (syncPc = "recv" /\ rx_storetasks # <<>>) => ENABLED receiver_loop

\* C2's case: an Instance was sent downstream while an Instance of the same
\* key received before it is still pending, and the loop took a later event.
C2_Witness ==
    \E i, j \in spawned :
        /\ i < j
        /\ sourced[PosOf(sourced, i, "Instance")].series
             = sourced[PosOf(sourced, j, "Instance")].series
        /\ j \in forwarded
        /\ task[i] = "pending"

-----------------------------------------------------------------------------
\* Properties of the messenger and of lonk_publisher (checked under
\* SpecNotify). A push is named by a series key and the tag of its events.

PushTags == {emitted[i].assoc : i \in DOMAIN emitted}

\* the messenger handled the Finish of the push
PushDone(k, a) ==
    \E i \in DOMAIN emitted :
        /\ emitted[i].lonk.series = k
        /\ emitted[i].assoc = a
        /\ emitted[i].lonk.message.type = "Done"

\* the ndicom values the messenger emitted for the push, in order
NdicomValues(k, a) ==
    LET ms == SelectSeq(emitted, LAMBDA m : /\ m.lonk.series = k
                                            /\ m.assoc = a
                                            /\ m.lonk.message.type = "Ndicom")
    IN  [i \in DOMAIN ms |-> ms[i].lonk.message.ndicom]

\* the number of instances of the push that were stored successfully
Successes(k, a) ==
    Cardinality({p \in DOMAIN sent : /\ sent[p].series = k
                                     /\ sent[p].assoc = a
                                     /\ sent[p].kind = "Instance"
                                     /\ sent[p].res = "ok"})

\* C4 as stated: for every finished push of a series, the ndicom values
\* emitted for it are at least one, strictly increasing, and the last equals
\* the number of successful writes of the push.
C4_StrictlyIncreasing ==
    \A d \in DOMAIN emitted :
        emitted[d].lonk.message.type = "Done" =>
            LET v == NdicomValues(emitted[d].lonk.series, emitted[d].assoc)
                n == Successes(emitted[d].lonk.series, emitted[d].assoc)
            IN  /\ Len(v) >= 1
                /\ \A i, j \in DOMAIN v : i < j => v[i] < v[j]
                /\ v[Len(v)] = n

\* C4 as amended: for every finished push of a series with n successful
\* writes, the ndicom values emitted for it are 1, 2, ..., n, one per
\* successful write, followed by the final value n emitted on Finish: at
\* least one value, non-decreasing, strictly increasing up to the final
\* value, which repeats n (and is 0 when n = 0).
C4_NdicomNonDecreasing ==
    \A d \in DOMAIN emitted :
        emitted[d].lonk.message.type = "Done" =>
            LET v == NdicomValues(emitted[d].lonk.series, emitted[d].assoc)
                n == Successes(emitted[d].lonk.series, emitted[d].assoc)
            IN  /\ Len(v) = n + 1
                /\ \A i \in 1..n : v[i] = i
                /\ v[n + 1] = n
                /\ \A i, j \in DOMAIN v : i < j => v[i] <= v[j]

\* C4's case: a finished push with two successful writes
C4_Witness ==
    \E k \in SeriesKeys, a \in PushTags :
          PushDone(k, a) /\ NdicomValues(k, a) = <<1, 2, 2>>
\* the messages published on a subject, in order
PublishedOn(s) ==
    SelectSeq(pubLog, LAMBDA e : e.subject = s /\ e.outcome = "published")

\* the events of the subject that the messenger was sent
SentOn(s) ==
    SelectSeq(sent, LAMBDA e : subject_of(root_subject, e.series) = s)

\* the subject received one push, all of whose instances were stored
SinglePushAllStored(s) ==
    LET es == SentOn(s) IN
    /\ Len(es) >= 2
    /\ es[Len(es)].kind = "Finish"
    /\ \A i \in 1..(Len(es) - 1) : es[i].kind = "Instance" /\ es[i].res = "ok"

\* everything sent to the messenger went through lonk_publisher, and the
\* bus accepted every publish
AllPublished ==
    /\ rx_register = <<>>
    /\ msgPc = "run"
    /\ lonkRead = Len(emitted)
    /\ lim["pub"].pc = "recv"

Subjects == {subject_of(root_subject, k) : k \in SeriesKeys}

CountedBefore(q) ==
    {p \in 1..(q - 1) :
        /\ pubLog[p].subject = pubLog[q].subject
        /\ pubLog[p].priority = "Optional"
        /\ pubLog[p].outcome # "dropped"
        /\ ~\E r \in (p + 1)..(q - 1) :
               /\ pubLog[r].subject = pubLog[q].subject
               /\ pubLog[r].priority = "Last"}

\* C8 as stated: an Optional message is published only if the last publish
\* for its subject finished at least the interval ago (no publish is ever
\* in flight when lonk_publisher takes a message), and is dropped otherwise;
\* a Required or Last message is never dropped.
C8_OptionalOnlyAfterInterval ==
    \A q \in DOMAIN pubLog :
        IF pubLog[q].priority = "Optional"
        THEN (pubLog[q].outcome # "dropped") <=>
                \A p \in 1..(q - 1) :
                    (pubLog[p].subject = pubLog[q].subject
                        /\ pubLog[p].outcome = "published")
                    => duration_since(pubLog[q].now, pubLog[p].t1) >= interval
        ELSE pubLog[q].outcome # "dropped"

\* C8 as amended: an Optional message is published only if the last
\* rate-limited (Optional) send for its subject since the subject was last
\* forgotten finished at least the interval ago, and is dropped otherwise;
\* the sends of Required and Last messages do not count; a Required or Last
\* message is never dropped.
C8_OptionalRateLimit ==
    \A q \in DOMAIN pubLog :
        IF pubLog[q].priority = "Optional"
        THEN (pubLog[q].outcome # "dropped") <=>
                \A p \in CountedBefore(q) :
                    duration_since(pubLog[q].now, pubLog[p].t1) >= interval
        ELSE pubLog[q].outcome # "dropped"

\* C8's case: on one subject, after a Required message, an Optional message
\* was published and the next Optional message was dropped
C8_Witness ==
    \E p, q, r \in DOMAIN pubLog :
        /\ p < q /\ q < r
        /\ pubLog[p].subject = pubLog[q].subject
        /\ pubLog[q].subject = pubLog[r].subject
        /\ pubLog[p].priority = "Required" /\ pubLog[p].outcome = "published"
        /\ pubLog[q].priority = "Optional" /\ pubLog[q].outcome = "published"
        /\ pubLog[r].priority = "Optional" /\ pubLog[r].outcome = "dropped"

\* C9: when the done message of a push is published, every ndicom or error
\* message of the push was taken by lonk_publisher before it and its publish
\* completed (or it was dropped); none is queued, in flight or published
\* after the done.
C9_DoneIsLast ==
    \A q \in DOMAIN pubLog :
        pubLog[q].message.type = "Done" =>
            \A i \in DOMAIN emitted :
                (/\ emitted[i].lonk.series = pubLog[q].series
                 /\ emitted[i].assoc = pubLog[q].assoc
                 /\ emitted[i].lonk.message.type # "Done")
                => \E p \in 1..(q - 1) : pubLog[p].idx = i

\* C9's case: the done of a push was published after the error message and
\* the ndicom message of two instances of the push
C9_Witness ==
    \E q \in DOMAIN pubLog :
        /\ pubLog[q].message.type = "Done"
        /\ pubLog[q].outcome = "published"
        /\ \E p, r \in 1..(q - 1) :
              /\ pubLog[p].series = pubLog[q].series
              /\ pubLog[p].assoc = pubLog[q].assoc
              /\ pubLog[r].series = pubLog[q].series
              /\ pubLog[r].assoc = pubLog[q].assoc
              /\ pubLog[p].message.type = "Error"
              /\ pubLog[r].message.type = "Ndicom"
              /\ pubLog[r].ev # pubLog[q].ev

-----------------------------------------------------------------------------
\* Properties of the whole pipeline (checked under Spec).

\* the association received an instance of the series and has finished
Pushed(k, a) == k \in SeenIn(a) /\ ~AssocOpen(a)

\* the number of instances of the series stored successfully under the
\* association
StoredUnder(k, a) ==
    Cardinality({p \in DOMAIN sourced : /\ sourced[p].series = k
                                        /\ sourced[p].assoc = a
                                        /\ sourced[p].kind = "Instance"
                                        /\ task[sourced[p].id] = "ok"})

\* every stage has handled everything it was sent, and both buses accepted
\* everything
Drained ==
    /\ rx_storetasks = <<>>
    /\ spawned = forwarded
    /\ \A n \in DOMAIN flushTasks : flushTasks[n].done
    /\ rx_register = <<>>
    /\ msgPc = "run"
    /\ lonkRead = Len(emitted)
    /\ lim["pub"].pc = "recv"
    /\ celeryRead = Len(celery)
    /\ celPc = "run"

\* the messages of the push of series k under association a that were
\* published (on the subject of k), in order
PublishedFor(k, a) ==
    SelectSeq(pubLog, LAMBDA e : /\ e.series = k
                                 /\ e.assoc = a
                                 /\ e.outcome = "published")

\* C3: for every association and every series of which it pushed at least
\* one instance, once the association finished and the pipeline drained, the
\* last message published on the subject of the series for that push is done
\* and exactly one registration task was submitted for the series under the
\* association.
C3_DoneLastOneRegistration ==
    Drained =>
        \A a \in Assocs, k \in FedSeries :
            Pushed(k, a) =>
                LET ms == PublishedFor(k, a) IN
                /\ ms # <<>>
                /\ ms[Len(ms)].message.type = "Done"
                /\ Cardinality({i \in DOMAIN submitted :
                                    /\ submitted[i].series = k
                                    /\ submitted[i].assoc = a}) = 1

\* C6: when the same series is pushed under two associations, the
\* synchronizer drops no Finish, and every registration task emitted for a
\* push carries the number of instances stored under its own association.
C6_PushesDistinguished ==
    /\ logged = 0
    /\ \A i \in DOMAIN celery :
          celery[i].ndicom = StoredUnder(celery[i].series, celery[i].assoc)

----------------------------------------------------------------------------
\* Properties of the series state tracker (checked under SpecTracker).

\* the object of the handled event i lacks one of the required tags
MissingRequired(i) ==
    /\ trkIn[i].event.type = "DicomInstance"
    /\ \E t \in DOMAIN RequiredTags :
           trkIn[i].event.dcm[RequiredTags[t]] = None

\* the AE title of the PACS of the association of the handled event i
PacsNameOf(i) ==
    LET st == CHOOSE p \in DOMAIN trkIn :
                  /\ trkIn[p].event.type = "Start"
                  /\ trkIn[p].event.ulid = trkIn[i].event.ulid
    IN  trkIn[st].event.aec

\* the subject of the (pacs_name, SeriesInstanceUID) of the handled event i,
\* whose object has a SeriesInstanceUID
SubjectOfEvent(i) ==
    subject_of(root_subject,
               SeriesKey_new(tts(trkIn[i].event.dcm, "SeriesInstanceUID")[1],
                             PacsNameOf(i)))

\* the handled events whose objects lack a required tag and belong to the
\* subject s
RejectedOn(s) ==
    {i \in DOMAIN trkIn :
        /\ MissingRequired(i)
        /\ trkIn[i].event.dcm.SeriesInstanceUID # None
        /\ SubjectOfEvent(i) = s}

\* the error notifications published on the subject s
ErrorsPublishedOn(s) ==
    {d \in DOMAIN pubLog :
        /\ pubLog[d].subject = s
        /\ pubLog[d].message.type = "Error"
        /\ pubLog[d].outcome = "published"}

\* C7: once the tracker has handled every event and returned, for every
\* received object that lacks one of StudyInstanceUID, SeriesInstanceUID,
\* SOPInstanceUID, PatientID or StudyDate: the tracker sent no task and no
\* end of series for it, and exactly one error notification was published for
\* it on the subject of its (pacs_name, SeriesInstanceUID).
C7_MissingTagRejected ==
    trkPc \in {"ok", "err"} =>
        /\ \A i \in DOMAIN trkIn :
               MissingRequired(i) =>
                   \A j \in DOMAIN trkOut : trkOut[j].ev # i
        /\ \A s \in Subjects :
               Cardinality(ErrorsPublishedOn(s)) = Cardinality(RejectedOn(s))

\* the part of C7 the tracker does implement: an object that lacks a
\* required tag, or whose StudyDate is not a date, yields no message at all
\* and makes the tracker return an error
TrackerRejectsSilently ==
    /\ \A i \in DOMAIN trkIn :
           (trkIn[i].event.type = "DicomInstance"
               /\ ~PacsFileRegistrationRequest_new(
                       PacsNameOf(i), trkIn[i].event.dcm).ok) =>
               /\ trkIn[i].result = "Err"
               /\ \A j \in DOMAIN trkOut : trkOut[j].ev # i
    /\ trkPc = "ok" => \A i \in DOMAIN trkIn : trkIn[i].result = "Ok"
    /\ emitted = <<>>

----------------------------------------------------------------------------
\* Properties of SubjectLimiter (checked under SpecLimiter).

\* the call of task c is a forget on the state whose semaphore is n
ForgetOn(c, n) ==
    /\ lim[c].sem = n
    /\ \/ lim[c].pc \in {"forget_poll", "forget_wait", "forget_remove"}
       \/ lim[c].pc = "ret" /\ lim[c].ret \in {"Forgot", "Twice"}

\* C10: while a function admitted by lock(subject) is running, the state of
\* the subject stays in the limiter, and no forget on that state is past its
\* wait for the permit: none is removing the state and none has returned.
C10_ForgetWaitsForFunction ==
    \A d \in LimCallers :
        lim[d].pc = "running" =>
            /\ lim[d].subject \in DOMAIN subjects
            /\ subjects[lim[d].subject].sem = lim[d].sem
            /\ \A c \in LimCallers :
                   ForgetOn(c, lim[d].sem) =>
                       lim[c].pc \in {"forget_poll", "forget_wait"}

\* a forget was called while an admitted function runs, and waits for it
C10_Witness ==
    \E c, d \in LimCallers :
        /\ lim[d].pc = "running"
        /\ lim[c].pc = "forget_wait"
        /\ lim[c].subject = lim[d].subject
        /\ lim[c].sem = lim[d].sem
        /\ sems[lim[d].sem].holder = d
        /\ sems[lim[d].sem].waiters = <<c>>

\* the step is the first block of a call of lock(s) by task c
LockEnters(c, s) ==
    /\ lim[c].pc = "idle"
    /\ lim'[c].pc = "lock_decide"
    /\ lim'[c].subject = s

\* what lock decides for task c, which is at its two tests: f runs
Admitted(l) == l.permit /\ ~too_soon(l.now, l.last_sent)

\* a forget of task d waits for the permit of the state of s
ForgetWaitsOn(d, s) ==
    /\ lim[d].pc = "forget_wait"
    /\ s \in DOMAIN subjects
    /\ lim[d].sem = subjects[s].sem

\* a lock(s) made now is not denied by the state of s: there is no state, or
\* the last publish is at least the interval ago; a permit that is held
\* belongs to a lock in progress
Fresh(s) ==
    \/ s \notin DOMAIN subjects
    \/ sems[subjects[s].sem].holder # "none"
    \/ ~too_soon(clock, subjects[s].last_sent)

RunsOn(d, s) == lim[d].pc = "running" /\ lim[d].subject = s

\* C12: at most one function admitted by lock runs per subject at any time;
\* a lock(subject) that begins while such a function runs, or less than the
\* interval after the previous one finished (the state keeps the instant at
\* which it finished), is not admitted; and a lock that is not admitted
\* returns None without running its function.
C12_OneAtATime ==
    [][/\ \A c, d \in LimCallers :
             (c # d /\ lim[c].pc = "running" /\ lim[d].pc = "running") =>
                 lim[c].subject # lim[d].subject
       /\ \A c \in LimCallers :
             /\ \A s \in LimSubjects :
                    (/\ LockEnters(c, s)
                     /\ \/ \E d \in LimCallers : RunsOn(d, s)
                        \/ /\ s \in DOMAIN subjects
                           /\ too_soon(clock, subjects[s].last_sent)) =>
                        ~Admitted(lim'[c])
             /\ (lim[c].pc = "lock_decide" /\ ~Admitted(lim[c])) =>
                    \/ lim'[c] = lim[c]
                    \/ /\ lim'[c].pc = "ret"
                       /\ lim'[c].ret \in {"TooSoon", "Busy"}
             /\ (lim[c].pc = "f_done" /\ lim'[c].pc = "ret") =>
                    /\ lim'[c].ret = "Some"
                    /\ subjects'[lim[c].subject].last_sent = clock]_vars

\* on the only state created, one lock runs its function while another
\* lock has returned None because the permit was held
C12_Witness ==
    /\ Len(sems) = 1
    /\ DOMAIN subjects # {}
    /\ \E c, d \in LimCallers :
           /\ lim[d].pc = "running"
           /\ lim[c].pc = "ret"
           /\ lim[c].ret = "Busy"

\* the state of subject x and its semaphore, <<>> when x has no state
StateOf(x) ==
    IF x \in DOMAIN subjects
    THEN <<subjects[x], sems[subjects[x].sem]>>
    ELSE <<>>

\* the subject of the call that task c makes or advances in the step
ActsOn(c, y) ==
    /\ lim'[c] # lim[c]
    /\ \/ lim[c].subject = y
       \/ lim[c].pc = "idle" /\ lim'[c].subject = y

\* C13: the state of the limiter is per subject. No step of a call on a
\* subject Y (a lock, its function, a publish, a forget) changes the state or
\* the semaphore of another subject X; a lock(X) is admitted exactly when X
\* has no state, or the permit of X is free and the last publish on X is at
\* least the interval ago; and a lock never waits: a task inside lock is in
\* the queue of no semaphore.
C13_PerSubject ==
    [][\A c \in LimCallers :
          /\ \A x, y \in LimSubjects :
                 (x # y /\ ActsOn(c, y)) => StateOf(x)' = StateOf(x)
          /\ \A x \in LimSubjects :
                 LockEnters(c, x) =>
                     (Admitted(lim'[c]) <=>
                         \/ x \notin DOMAIN subjects
                         \/ /\ sems[subjects[x].sem].holder = "none"
                            /\ ~too_soon(clock, subjects[x].last_sent))
          /\ lim[c].pc \in {"lock_decide", "running", "f_done"} =>
                 \A i \in DOMAIN sems : \A j \in DOMAIN sems[i].waiters :
                     sems[i].waiters[j] # c]_vars

\* a lock of one subject runs its function while, on the other subject, a
\* function runs and a forget waits for it
C13_Witness ==
    \E c, d, e \in LimCallers :
        /\ lim[c].pc = "running"
        /\ lim[d].pc = "running"
        /\ lim[c].subject # lim[d].subject
        /\ lim[e].pc = "forget_wait"
        /\ lim[e].subject = lim[d].subject

\* the steps of the call that task c is inside: polls of the runtime, the
\* function passed to lock returning, and the code after each await
LimiterStep(c) ==
    /\ lim[c].pc \notin {"idle", "ret"}
    /\ \/ SubjectLimiter_lock_decide
       \/ SubjectLimiter_f_returns
       \/ SubjectLimiter_lock_finish
       \/ SubjectLimiter_forget_poll
       \/ SubjectLimiter_forget_wake
       \/ SubjectLimiter_forget_remove
    /\ lim'[c] # lim[c]

\* the subject all tasks of test_forget_called_twice_shouldnt_blow_up use
subject1 == CHOOSE s \in LimSubjects : TRUE

NextForgetTwice ==
    /\ NextLimiter
    /\ \A c \in LimCallers : lim'[c].subject \in {<<>>, subject1}

\* task c can take a step: it is inside a call and, at the await of
\* acquire_owned, it has been handed the permit or woken by close
CanStep(c) ==
    /\ lim[c].pc \notin {"idle", "ret"}
    /\ lim[c].pc = "forget_wait" => forget_wake_ready(LimiterState, c)

\* CanStep is the enabling condition of the steps of a task
CanStepIsEnabled ==
    \A c \in LimCallers : CanStep(c) <=> ENABLED <<LimiterStep(c)>>_vars

\* the runtime polls every task that can advance, and the function passed
\* to lock terminates: weak fairness of the steps of each task
SpecForgetTwice ==
    /\ InitLimiter
    /\ [][NextForgetTwice]_vars
    /\ \A c \in LimCallers :
           []<>(~CanStep(c)) \/ []<><<LimiterStep(c)>>_vars

InForget(d) == lim[d].pc \in {"forget_poll", "forget_wait", "forget_remove"}

ForgetReturned(d) ==
    lim[d].pc = "ret" /\ lim[d].ret \in {"Forgot", "Twice", "Unknown"}

\* C14: forget calls running concurrently on a subject whose function is in
\* flight all return (with the state removed, or with one of the two
\* warnings), none waits for ever, and the function in flight completes and
\* lock returns its value.
C14_ConcurrentForgetsReturn ==
    /\ \A d \in LimCallers : InForget(d) ~> ForgetReturned(d)
    /\ \A c \in LimCallers :
           (lim[c].pc = "running") ~> (lim[c].pc = "ret" /\ lim[c].ret = "Some")

\* on the only state created, the function has returned its value and of
\* the two forgets that waited for it one removed the state and the other
\* was woken by the close
C14_Witness ==
    /\ Len(sems) = 1
    /\ \E c, d, e \in LimCallers :
          /\ lim[c].pc = "ret" /\ lim[c].ret = "Some"
          /\ lim[d].pc = "ret" /\ lim[d].ret = "Forgot" /\ lim[d].sem = 1
          /\ lim[e].pc = "ret" /\ lim[e].ret = "Twice" /\ lim[e].sem = 1

-----------------------------------------------------------------------------
\* Properties of create_messages_for and count_series, checked on the steps
\* of the messenger under SpecNotify.

\* the messenger takes an event of the kind and result from its channel
MessengerTakes(kind, res) ==
    /\ msgPc = "run"
    /\ rx_register # <<>>
    /\ Head(rx_register).kind = kind
    /\ Head(rx_register).res = res
    /\ rx_register' = Tail(rx_register)

\* the events the messenger has taken so far
Taken == SubSeq(sent, 1, Len(sent) - Len(rx_register))

\* the number of instances of the series stored successfully that the
\* messenger has taken since it last took a Finish of the series
StoredSinceFinish(k) ==
    Cardinality({p \in DOMAIN Taken :
        /\ Taken[p].series = k
        /\ Taken[p].kind = "Instance"
        /\ Taken[p].res = "ok"
        /\ ~\E q \in DOMAIN Taken :
               q > p /\ Taken[q].series = k /\ Taken[q].kind = "Finish"})

\* the messages appended to the channel of lonk_publisher in the step,
\* without the ghost tags
NewLonks ==
    [i \in 1..(Len(emitted') - Len(emitted)) |->
        [lonk |-> emitted'[Len(emitted) + i].lonk,
         priority |-> emitted'[Len(emitted) + i].priority]]

\* the registration parameters appended to the channel of celery_publisher
NewRegistrations ==
    [i \in 1..(Len(celery') - Len(celery)) |->
        [series |-> celery'[Len(celery) + i].series,
         ndicom |-> celery'[Len(celery) + i].ndicom]]

\* C15: on Finish of a series key, the entry of the key is removed from the
\* counts, the final count being the stored count or 0 when there is none;
\* the messages created are a Required ndicom with the final count followed
\* by a Last done, and one registration with the series and the final count;
\* and they are what the messenger sends when its channels are open.
C15_FinishMessages ==
    [][MessengerTakes("Finish", "fin") =>
          LET event == Head(rx_register)
              k == event.series
              n == IF k \in DOMAIN counts THEN counts[k] ELSE 0
              r == create_messages_for(counts, k, event)
          IN  /\ k \notin DOMAIN counts'
              /\ n = StoredSinceFinish(k)
              /\ Len(r.lonks) = 2
              /\ r.lonks[1] = [lonk |-> [series |-> k,
                                         message |-> [type |-> "Ndicom",
                                                      ndicom |-> n]],
                               priority |-> "Required"]
              /\ r.lonks[2] = [lonk |-> [series |-> k,
                                         message |-> [type |-> "Done",
                                                      ndicom |-> 0]],
                               priority |-> "Last"]
              /\ r.rp = << [series |-> k, ndicom |-> n] >>
              /\ msgPc' = "run" =>
                     NewLonks = r.lonks /\ NewRegistrations = r.rp]_vars

\* the messenger sent the registration of a finished series with two
\* instances, the done message after it, and the series has no count
C15_Witness ==
    /\ msgPc = "run"
    /\ emitted # <<>>
    /\ celery # <<>>
    /\ celery[Len(celery)].ndicom = 2
    /\ emitted[Len(emitted)].lonk.message.type = "Done"
    /\ emitted[Len(emitted)].lonk.series = celery[Len(celery)].series
    /\ celery[Len(celery)].series \notin DOMAIN counts

C17_ErrorLeavesCounts ==
    [][MessengerTakes("Instance", "err") =>
          LET event == Head(rx_register)
              key == event.series
              r == create_messages_for(counts, key, event)
          IN  /\ counts' = counts
              /\ r.counts = counts
              /\ r.lonks = << [lonk |-> [series |-> key,
                                         message |-> [type |-> "Error",
                                                      ndicom |-> 0]],
                               priority |-> "Required"] >>
              /\ r.rp = <<>>
              /\ celery' = celery
              /\ msgPc' = "run" => NewLonks = r.lonks]_vars

\* the error of an instance was sent for a series without a count, while
\* another series has one
C17_Witness ==
    /\ msgPc = "run"
    /\ emitted # <<>>
    /\ emitted[Len(emitted)].lonk.message.type = "Error"
    /\ emitted[Len(emitted)].priority = "Required"
    /\ emitted[Len(emitted)].lonk.series \notin DOMAIN counts
    /\ DOMAIN counts # {}
    /\ celery = <<>>

-----------------------------------------------------------------------------
\* The whole pipeline when one association pushes the series, its writes
\* succeeding or failing and completing in any order, within one progress
\* interval, and both buses accept what is published.

association1 == CHOOSE a \in Assocs : TRUE

\* number of events of the association, its Finish events included
MaxPushed == 3

NextOneAssociation ==
    /\ Next
    /\ (Len(sourced) + OwedFinishes)' <= MaxPushed
    /\ clock' <= default_progress_interval
    /\ \A p \in DOMAIN sourced' : sourced'[p].assoc = association1
    /\ lim'["pub"].pc # "failed"
    /\ celPc' # "failed"

SpecOneAssociation == Init /\ [][NextOneAssociation]_vars

\* the number of instances of the series whose write failed under the
\* association
FailedUnder(k, a) ==
    Cardinality({p \in DOMAIN sourced : /\ sourced[p].series = k
                                        /\ sourced[p].assoc = a
                                        /\ sourced[p].kind = "Instance"
                                        /\ task[sourced[p].id] = "err"})

\* C18: a failed write does not stop the series. The result of every write
\* that completed, failed ones included, can be forwarded; and for a series
\* with s successful and f failed writes, completed in any order, once the
\* association finished and the pipeline drained, f error messages were
\* published, one Finish reached the messenger, the last ndicom published
\* (before the done) has the value s, and the one registration task
\* submitted carries s.
C18_FailureDoesNotAbort ==
    /\ \A id \in spawned \ forwarded :
           task[id] \in {"ok", "err"} => register_task_ready(id)
    /\ Drained =>
           \A k \in FedSeries :
               Pushed(k, association1) =>
                   LET ms == PublishedFor(k, association1)
                       s == StoredUnder(k, association1)
                       f == FailedUnder(k, association1)
                   IN  /\ Cardinality({q \in DOMAIN ms :
                                          ms[q].message.type = "Error"}) = f
                       /\ Cardinality({p \in DOMAIN sent :
                                          /\ sent[p].series = k
                                          /\ sent[p].kind = "Finish"}) = 1
                       /\ Len(ms) >= 2
                       /\ ms[Len(ms)].message.type = "Done"
                       /\ ms[Len(ms) - 1].message =
                              [type |-> "Ndicom", ndicom |-> s]
                       /\ Len(submitted) = 1
                       /\ submitted[1].series = k
                       /\ submitted[1].ndicom = s

\* the pipeline drained after a push of two instances, of which the second
\* was written first and the write of the first failed
C18_Witness ==
    /\ Drained
    /\ \E k \in FedSeries :
          /\ Pushed(k, association1)
          /\ StoredUnder(k, association1) = 1
          /\ FailedUnder(k, association1) = 1
          /\ completed = <<2, 1>>
          /\ task[1] = "err"

-----------------------------------------------------------------------------
\* Properties of the in-flight map of series_synchronizer (checked under
\* SpecSync).

\* the receiver loop takes the event `ev` from its channel in the step
ReceiverTakes(ev) ==
    /\ syncPc = "recv"
    /\ rx_storetasks # <<>>
    /\ ev = Head(rx_storetasks)
    /\ rx_storetasks' = Tail(rx_storetasks)

\* a Finish of the key was enqueued before
FinishEnqueued(series) ==
    \E i \in DOMAIN flushTasks : flushTasks[i].series = series

\* the events a source sends
SourceEvents ==
    {sourced[p] : p \in DOMAIN sourced}

\* C30 as stated: the key is removed from the in-flight map in the step
\* that enqueues its Finish, and an Instance taken for a key whose Finish
\* was enqueued before is logged as an error.
C30_InstanceAfterFinishLogged ==
    [][\A ev \in SourceEvents :
          ReceiverTakes(ev) =>
              /\ (ev.kind = "Finish" /\ Len(flushTasks') > Len(flushTasks)) =>
                     ev.series \notin DOMAIN inflight_series'
              /\ (ev.kind = "Instance" /\ FinishEnqueued(ev.series)) =>
                     logged' = logged + 1]_vars

\* C30 (amended): the key is removed from the in-flight map in the step
\* that enqueues its Finish. An Instance taken for a key is never logged:
\* it is added to the entry of the key, and when the Finish of the key was
\* enqueued before and the key has no entry, a new entry is made for it.
\* What is logged as an error is a Finish taken for a key without entry:
\* nothing is enqueued for it and the map stays as it was.
C30_FinishRemovesKey ==
    [][\A ev \in SourceEvents :
          ReceiverTakes(ev) =>
              /\ (ev.kind = "Finish" /\ ev.series \in DOMAIN inflight_series) =>
                     /\ ev.series \notin DOMAIN inflight_series'
                     /\ Len(flushTasks') = Len(flushTasks) + 1
                     /\ flushTasks'[Len(flushTasks')].last = ev
                     /\ flushTasks'[Len(flushTasks')].tasks =
                            Range(inflight_series[ev.series])
                     /\ logged' = logged
              /\ (ev.kind = "Finish" /\ ev.series \notin DOMAIN inflight_series) =>
                     /\ logged' = logged + 1
                     /\ flushTasks' = flushTasks
                     /\ inflight_series' = inflight_series
              /\ ev.kind = "Instance" =>
                     /\ logged' = logged
                     /\ flushTasks' = flushTasks
                     /\ ev.series \in DOMAIN inflight_series'
                     /\ inflight_series'[ev.series] =
                            (IF ev.series \in DOMAIN inflight_series
                             THEN inflight_series[ev.series] ELSE <<>>)
                            \o <<ev.id>>]_vars

\* an Instance was taken for a key after the Finish of the key was
\* enqueued: the key has a new entry that holds that Instance only, and
\* nothing was logged
C30_Witness ==
    \E series \in DOMAIN inflight_series :
        /\ FinishEnqueued(series)
        /\ Len(inflight_series[series]) = 1
        /\ \A i \in DOMAIN flushTasks :
               flushTasks[i].series = series =>
                   \A id \in flushTasks[i].tasks : id < inflight_series[series][1]
        /\ logged = 0

-----------------------------------------------------------------------------
\* Properties of the handler of a connection (checked under SpecScp).

\* the positions in the channel of the events of the type of association a
EventsOf(a, type) ==
    {p \in DOMAIN rx_association :
        rx_association[p].ulid = a /\ rx_association[p].type = type}

\* one Finish is sent for a connection when its handler returns, none
\* before, and it follows every Instance event of the connection
FinishOnceAndLast ==
    \A a \in Assocs :
        /\ Cardinality(EventsOf(a, "Finish")) =
               (IF conn[a].pc = "done" THEN 1 ELSE 0)
        /\ \A p \in EventsOf(a, "Finish"), q \in EventsOf(a, "DicomInstance") :
               q < p

\* C19: for every connection whose handler returned, one Finish event was
\* sent for its association, after every Instance event of the association,
\* and its ok flag is true when the peer released the association and false
\* when the association ended by an abort, by an error of the connection or
\* by a protocol error.
C19_OneFinishWithOkFlag ==
    \A a \in Assocs :
        conn[a].pc = "done" =>
            /\ Cardinality(EventsOf(a, "Finish")) = 1
            /\ \A p \in EventsOf(a, "Finish") :
                   /\ \A q \in EventsOf(a, "DicomInstance") : q < p
                   /\ rx_association[p].ok = (conn[a].ended = "release")

\* the handler of a returns in the step because receive() failed
ConnectionEnds(a) ==
    /\ conn[a].pc = "receive"
    /\ conn'[a].pc = "done"
    /\ conn'[a].ended \in {"release", "abort", "drop", "truncated"}

\* what the handler of a does with a Data fragment that is not the last
FragmentTaken(a, f) ==
    on_pdata(conn[a], <<PDataValue(1, "Data", FALSE, f)>>, TRUE)

\* C20: an association that is aborted, or whose connection drops, while
\* the buffer holds the fragments of an instance received so far, drops the
\* buffer. Taking a fragment that is not the last stores nothing and sends
\* no event; when the connection ends nothing is stored and the only event
\* sent is Finish; so what was stored and the Instance events sent earlier
\* in the association stay as they were. Every object stored was read from
\* a whole data set and has its Instance event.
C20_PartialDropped ==
    [][\A a \in Assocs :
          /\ conn[a].pc = "receive" =>
                 \A f \in Fragments :
                     /\ FragmentTaken(a, f).store = None
                     /\ FragmentTaken(a, f).result = "continue"
                     /\ emit_instance(a, FragmentTaken(a, f).store) = <<>>
          /\ ConnectionEnds(a) =>
                 /\ stored' = stored
                 /\ Len(rx_association') = Len(rx_association) + 1
                 /\ SubSeq(rx_association', 1, Len(rx_association)) =
                        rx_association
                 /\ rx_association'[Len(rx_association')].type = "Finish"
          /\ Len(SelectSeq(stored', LAMBDA o : o.ulid = a)) =
                 Cardinality({p \in DOMAIN rx_association' :
                     /\ rx_association'[p].ulid = a
                     /\ rx_association'[p].type = "DicomInstance"})]_vars

\* an instance was stored, and an association ended by an abort or a drop
\* of the connection while its buffer held the first fragment of an
\* instance: one object is stored, one Instance event was sent, and the
\* association that ended stored nothing
C20_Witness ==
    \E a \in Assocs :
        /\ conn[a].pc = "done"
        /\ conn[a].ended \in {"abort", "drop"}
        /\ conn[a].partial = <<"d1">>
        /\ Len(stored) = 1
        /\ Len(SelectSeq(stored, LAMBDA o : o.ulid = a)) = 0
        /\ Cardinality(EventsOf(a, "DicomInstance")) = 0
        /\ Cardinality(EventsOf(a, "Finish")) = 1

\* the P-DATA PDU that holds a C-ECHO-RQ of MessageID m on presentation
\* context id
EchoRq(id, m) == <<PDataValue(id, "Command", TRUE, <<"echo", m>>)>>

\* the responses the handler of a has sent whose Command Field is rsp
ResponsesOf(h, rsp) ==
    SelectSeq(h.sent_pdus,
              LAMBDA pdu : /\ pdu.type = "PData"
                           /\ pdu.data[1].data.command_field = rsp)

\* the PDU the handler sent last
LastSent(h) == h.sent_pdus[Len(h.sent_pdus)]

\* C21: when the handler of an established association receives a
\* C-ECHO-RQ and the response can be sent, it sends one PDU, which holds a
\* C-ECHO-RSP of status 0 on the presentation context of the request;
\* nothing is stored, no event is sent on the channel, and the handler
\* stays in its receive loop, where every command is accepted.
C21_EchoAnswered ==
    [][\A a \in Assocs, id \in ContextIds, m \in MessageIds :
          receive_pdata(a, EchoRq(id, m), TRUE) =>
              /\ Len(conn'[a].sent_pdus) = Len(conn[a].sent_pdus) + 1
              /\ SubSeq(conn'[a].sent_pdus, 1, Len(conn[a].sent_pdus)) =
                     conn[a].sent_pdus
              /\ LastSent(conn'[a]).type = "PData"
              /\ Len(LastSent(conn'[a]).data) = 1
              /\ LET value == LastSent(conn'[a]).data[1]
                 IN  /\ value.presentation_context_id = id
                     /\ value.value_type = "Command"
                     /\ value.is_last
                     /\ value.data.command_field = "C-ECHO-RSP"
                     /\ value.data.status = 0
              /\ stored' = stored
              /\ rx_association' = rx_association
              /\ conn'[a].pc = "receive"
              /\ conn'[a].peer = "open"
              /\ conn'[a].instance_buffer = <<>>
              /\ pdus' < MaxPdus =>
                     \A data \in PDatas, send_ok \in BOOLEAN :
                         ENABLED receive_pdata(a, data, send_ok)]_vars

\* an association answered two C-ECHO-RQ and then took the first fragment
\* of an instance
C21_Witness ==
    \E a \in Assocs :
        /\ conn[a].pc = "receive"
        /\ Len(ResponsesOf(conn[a], "C-ECHO-RSP")) = 2
        /\ Len(conn[a].sent_pdus) = 2
        /\ conn[a].instance_buffer = <<"d1">>

\* C22: every value of a received P-DATA PDU is processed: a PDU that holds
\* two values (the last Command value of a C-STORE-RQ, then a Data value)
\* leaves the handler as the two values received in two PDUs do, with the
\* same object stored and the same result.
C22_EveryValueProcessed ==
    \A a \in Assocs :
        conn[a].pc = "receive" =>
            \A data \in PDatas :
                Len(data) = 2 =>
                    LET both == on_pdata(conn[a], data, TRUE)
                        first == on_pdata(conn[a], <<data[1]>>, TRUE)
                        second == on_pdata(first.h, <<data[2]>>, TRUE)
                    IN  /\ first.result = "continue"
                        /\ both.h = second.h
                        /\ both.store = second.store
                        /\ both.result = second.result

\* a step in which the handler of a meets a framing error: the bytes read
\* are not a whole PDU, the PDU is of no known type, or the first value of
\* a P-DATA PDU is a Data value on a presentation context that was not
\* negotiated
FramingError(a) ==
    \/ receive_error(a, "truncated")
    \/ receive_other_pdu(a, "Unknown")
    \/ \E data \in PDatas, send_ok \in BOOLEAN :
           /\ data # <<>>
           /\ data[1].value_type = "Data"
           /\ data[1].presentation_context_id \notin presentation_contexts
           /\ receive_pdata(a, data, send_ok)

\* C23: a framing error on an association ends it: in the step that meets
\* the error an A-ABORT is sent to the peer, the handler returns, so that no
\* further PDU of the association is processed, and the event sent last on
\* the channel is the Finish of the association with ok false.
C23_FramingErrorAborts ==
    [][\A a \in Assocs :
          FramingError(a) =>
              /\ conn'[a].pc = "done"
              /\ \E p \in DOMAIN conn'[a].sent_pdus :
                     conn'[a].sent_pdus[p].type = "AbortRQ"
              /\ Len(rx_association') = Len(rx_association) + 1
              /\ rx_association'[Len(rx_association')] =
                     AssociationEvent_Finish(a, FALSE)]_vars

-----------------------------------------------------------------------------
\* Properties of the series state tracker (checked under SpecTracker).

\* C24: whatever the peers do (fail the handshake, abort, drop the
\* connection, send objects with missing tags), the series state tracker
\* does not panic: it handles every event of the channel.
C24_NoPanic ==
    /\ trkPc # "panic"
    /\ \A i \in DOMAIN trkIn : trkIn[i].result # "panic"

\* the tracker handles, in the step, the Finish of an association that is
\* in flight
TrackerFinishes(A) ==
    /\ trkPc = "run"
    /\ rx_association # <<>>
    /\ Head(rx_association) \in
           {AssociationEvent_Finish(A, ok) : ok \in BOOLEAN}
    /\ A \in DOMAIN inflight_associations
    /\ trkIn' = Append(trkIn, [event |-> Head(rx_association),
                               result |-> "Ok"])

\* the series of the storage tasks the tracker has sent for association A
ObservedUnder(A) ==
    {trkOut[p].series :
        p \in {q \in DOMAIN trkOut :
                  trkOut[q].ulid = A /\ trkOut[q].task = "store"}}

\* C28: when the tracker handles the Finish of an association A in flight,
\* A is removed from the in-flight map and the entries of the other
\* associations stay as they were; the messages sent in the step are all
\* of A and of series observed under A, with exactly one End for each such
\* series, and the End of a series follows every Task of that series from
\* A in the output of the tracker.
C28_FinishFlushesAssociation ==
    [][\A A \in Assocs :
          TrackerFinishes(A) =>
              LET n == Len(trkOut)
                  new == {p \in DOMAIN trkOut' : p > n}
              IN  /\ DOMAIN inflight_associations' =
                         DOMAIN inflight_associations \ {A}
                  /\ \A u \in DOMAIN inflight_associations' :
                         inflight_associations'[u] = inflight_associations[u]
                  /\ SubSeq(trkOut', 1, n) = trkOut
                  /\ DOMAIN inflight_associations[A].series = ObservedUnder(A)
                  /\ \A p \in new :
                         /\ trkOut'[p].ulid = A
                         /\ trkOut'[p].series \in ObservedUnder(A)
                  /\ \A k \in ObservedUnder(A) :
                         /\ Cardinality({p \in new :
                                /\ trkOut'[p].kind = "End"
                                /\ trkOut'[p].series = k}) = 1
                         /\ \A p \in new, q \in DOMAIN trkOut' :
                                (/\ trkOut'[p].kind = "End"
                                 /\ trkOut'[p].series = k
                                 /\ trkOut'[q].kind = "Task"
                                 /\ trkOut'[q].series = k
                                 /\ trkOut'[q].ulid = A) => q < p]_vars

\* the Finish of an association with a series was handled while another
\* association was in flight: its End is the last message sent, and the
\* other association is still in the map
C28_Witness ==
    \E A \in Assocs : \E B \in Assocs \ {A} :
        /\ trkIn # <<>>
        /\ trkIn[Len(trkIn)].event.type = "Finish"
        /\ trkIn[Len(trkIn)].event.ulid = A
        /\ trkIn[Len(trkIn)].result = "Ok"
        /\ ObservedUnder(A) # {}
        /\ trkOut[Len(trkOut)].kind = "End"
        /\ DOMAIN inflight_associations = {B}

\* the events of association a that the tracker has handled, in the order
\* it handled them
HandledOf(a) ==
    SelectSeq([i \in DOMAIN trkIn |-> trkIn[i].event],
              LAMBDA event : event.ulid = a)

\* C29: the events of an association that the tracker has handled are its
\* Start, then Instances, then its Finish as the last one: the first event
\* handled is the Start, so that no Instance and no Finish of an association
\* is handled before its Start, and nothing follows the Finish.
C29_StartInstancesFinish ==
    \A a \in Assocs :
        LET events == HandledOf(a)
        IN  \A i \in DOMAIN events :
                /\ (i = 1) <=> (events[i].type = "Start")
                /\ events[i].type = "Finish" => i = Len(events)

-----------------------------------------------------------------------------
\* Properties of the publishers (checked under Spec).

\* C25: a publish that fails does not end a publisher: after a progress
\* message was rejected by the progress bus lonk_publisher goes on
\* receiving from its channel, and after a registration task was rejected
\* by the task queue celery_publisher goes on receiving from its channel.
C25_PublisherSurvivesFailure ==
    /\ lim["pub"].pc # "failed"
    /\ celPc # "failed"

-----------------------------------------------------------------------------
\* Properties of the listener and its worker pool (checked under
\* SpecListenerFair and SpecListener).

\* the jobs a worker has begun and whose Finish was not sent yet
RunningJobs ==
    {started[i] : i \in DOMAIN started} \ {j \in 1..finite_connections :
                                              FinishesOf(j) # {}}

\* the listener takes no more than finite_connections connections, and
\* when it has returned every job given to the pool was run to its end:
\* its Finish is on the channel, no job waits and no worker runs
ReturnsAfterHandlers ==
    /\ listener.taken <= finite_connections
    /\ listener.pc # "accept" => listener.taken = finite_connections
    /\ listener.pc = "done" =>
           /\ \A i \in DOMAIN executed :
                  Cardinality(FinishesOf(executed[i])) = 1
           /\ jobs = <<>>
           /\ RunningJobs = {}
           /\ \A w \in 1..n_threads : workers[w].pc = "exit"

\* C26: with a limit of finite_connections connections the listener stops
\* accepting after that many, and returns only after every handler given to
\* the pool has finished and sent its Finish; as every handler terminates,
\* the listener returns once the connections were taken.
C26_ListenerTerminates ==
    /\ []ReturnsAfterHandlers
    /\ (listener.taken = finite_connections) ~> (listener.pc = "done")

\* the listener returned after it gave every connection to the pool, and
\* the last job given was not the last to finish
C26_Witness ==
    /\ listener.pc = "done"
    /\ Len(executed) = finite_connections
    /\ \E p \in FinishesOf(finite_connections) : p < Len(rx_association)

\* C27: at most n_threads handlers run at any time; the jobs are begun in
\* the order they were given to the pool, the others waiting in the queue
\* in that order; and a worker that runs a job does not hold the mutex of
\* the receiver, so that the other workers can receive jobs meanwhile.
C27_PoolBoundsConcurrency ==
    /\ Cardinality(RunningJobs) <= n_threads
    /\ RunningJobs = {workers[w].job : w \in {v \in 1..n_threads :
                                                workers[v].pc = "job"}}
    /\ started \o jobs = executed
    /\ \A w \in 1..n_threads : workers[w].pc = "job" => receiver_lock # w

\* n_threads handlers run at the same time while a further connection
\* waits in the queue
C27_Witness ==
    /\ Cardinality(RunningJobs) = n_threads
    /\ \A w \in 1..n_threads : workers[w].pc = "job"
    /\ jobs # <<>>

-----------------------------------------------------------------------------
\* Properties of the derived path (checked under SpecPath).

\* the characters of the class [A-Za-z0-9._/-]
is_path_char(c) == is_valid_char(c) \/ c \in {"_", "/"}

\* C31: whatever the values of the tags of an object, its derived path is
\* made of characters of the class [A-Za-z0-9._/-] only.
C31_PathCharacters ==
    (call.fn = "path" /\ call.result # "panic") =>
        \A i \in DOMAIN call.result : is_path_char(call.result[i])

\* C34: for every value of the 64-bit hash, its hexadecimal rendering has
\* at least 7 characters, so that its first 7 characters can be taken: the
\* component is 7 hexadecimal digits and there is no panic.
C34_HashHasSevenDigits ==
    call.fn = "hash" =>
        /\ Len(call.hex) >= 7
        /\ call.result # "panic"
        /\ Len(call.result) = 7
        /\ \A i \in DOMAIN call.result :
               \E d \in DOMAIN HexDigits : HexDigits[d] = call.result[i]

-----------------------------------------------------------------------------
\* Properties of the DIMSE responses (checked under SpecScp).

\* the P-DATA PDU that holds a C-STORE-RQ of MessageID m
StoreRq(id, m) == <<PDataValue(id, "Command", TRUE, <<"store", m>>)>>

\* the P-DATA PDU that holds the last fragment f of a data set
LastFragment(id, f) == <<PDataValue(id, "Data", TRUE, f)>>

\* C37: every response refers to its request. A C-STORE-RQ of MessageID m
\* makes m the MessageID of the data set that follows it, the C-STORE-RSP
\* sent when that data set is complete carries it as
\* MessageIDBeingRespondedTo, and the C-ECHO-RSP sent for a C-ECHO-RQ of
\* MessageID m carries m.
C37_ResponseRefersToRequest ==
    [][\A a \in Assocs, id \in ContextIds, m \in MessageIds :
          /\ receive_pdata(a, StoreRq(id, m), TRUE) => conn'[a].msgid = m
          /\ \A f \in Fragments :
                 /\ receive_pdata(a, LastFragment(id, f), TRUE)
                 /\ Len(stored') > Len(stored)
                 => /\ LastSent(conn'[a]).data[1].data.command_field =
                           "C-STORE-RSP"
                    /\ LastSent(conn'[a]).data[1].data
                           .message_id_being_responded_to = conn[a].msgid
          /\ receive_pdata(a, EchoRq(id, m), TRUE) =>
                 /\ LastSent(conn'[a]).data[1].data.command_field =
                        "C-ECHO-RSP"
                 /\ LastSent(conn'[a]).data[1].data
                        .message_id_being_responded_to = m]_vars

-----------------------------------------------------------------------------
\* Properties of ThreadPool (checked under SpecListenerFair).

\* the number of times job j was begun by a worker
TimesStarted(j) == Cardinality({i \in DOMAIN started : started[i] = j})

\* no job is begun or ended twice, a job that ended was begun and a job
\* that was begun was submitted; and when shutdown has returned every job
\* submitted was begun once and has ended, and every worker has left its
\* loop
RunsOnce ==
    /\ \A j \in 1..finite_connections :
           /\ TimesStarted(j) <= 1
           /\ Cardinality(FinishesOf(j)) <= TimesStarted(j)
           /\ TimesStarted(j) = 1 => \E i \in DOMAIN executed : executed[i] = j
    /\ listener.pc = "done" =>
           /\ \A i \in DOMAIN executed :
                  /\ TimesStarted(executed[i]) = 1
                  /\ Cardinality(FinishesOf(executed[i])) = 1
           /\ \A w \in 1..n_threads : workers[w].pc = "exit"

\* C36: every job submitted with execute before shutdown is run exactly
\* once, the jobs still queued when shutdown is called included; shutdown
\* returns, and only after all of them have ended and every worker thread
\* has exited.
C36_PoolRunsEveryJobOnce ==
    /\ []RunsOnce
    /\ \A j \in 1..finite_connections :
           (\E i \in DOMAIN jobs : jobs[i] = j) ~> (FinishesOf(j) # {})
    /\ (listener.pc = "join") ~> (listener.pc = "done")

\* shutdown was called, and dropped the sender, while two jobs were still
\* queued and a worker had begun none
C36_Witness ==
    /\ listener.pc = "join"
    /\ ~sender
    /\ Len(jobs) >= 2
    /\ started = <<>>

-----------------------------------------------------------------------------
\* Properties of a rejected instance (checked under SpecTracker).

\* the tracker handles, in the step, an Instance event that fails
InstanceRejected ==
    /\ association_series_state_loop
    /\ rx_association[1].type = "DicomInstance"
    /\ trkIn'[Len(trkIn')].result = "Err"

\* C33: an Instance event that fails does not stop the tracker: it stays
\* in its loop with the associations it knows, where it handles the events
\* that follow; and when its input channel is closed it reports failure, so
\* that run_everything, whose other stages met no error, returns an error.
C33_RejectedInstanceReported ==
    /\ [][InstanceRejected =>
              /\ trkPc' = "run"
              /\ inflight_associations' = inflight_associations
              /\ rx_association' # <<>> => ENABLED association_series_state_loop
         ]_vars
    /\ [](/\ trkPc \in {"ok", "err"}
          /\ \E i \in DOMAIN trkIn : trkIn[i].result = "Err"
          => /\ association_series_state_loop_result.inner = "Err"
             /\ run_everything_result(association_series_state_loop_result,
                                      "Ok", "Ok") = "Err")

-----------------------------------------------------------------------------
\* Properties of the termination of series_synchronizer (checked under
\* SpecSyncFair).

\* the number of times the event of this id and kind was sent downstream
TimesSent(id, kind) ==
    Cardinality({q \in DOMAIN sent : sent[q].id = id /\ sent[q].kind = kind})

\* the Instance events of the key of the Finish at position p of the
\* upstream that came since the Finish of that key before it
InstancesOf(p) ==
    {q \in 1..(p - 1) :
        /\ sourced[q].kind = "Instance"
        /\ sourced[q].series = sourced[p].series
        /\ ~\E r \in (q + 1)..(p - 1) :
               /\ sourced[r].kind = "Finish"
               /\ sourced[r].series = sourced[p].series}

\* the Finish events of the upstream whose key has at least one Instance
FinishesWithInstance ==
    {p \in DOMAIN sourced :
        sourced[p].kind = "Finish" /\ InstancesOf(p) # {}}

\* every Instance and every Finish of a key with an Instance was sent once
AllForwardedOnce ==
    /\ \A p \in DOMAIN sourced :
           sourced[p].kind = "Instance" =>
               TimesSent(sourced[p].id, "Instance") = 1
    /\ \A p \in FinishesWithInstance : TimesSent(sourced[p].id, "Finish") = 1

-----------------------------------------------------------------------------
\* Properties of the permit of a subject (checked under SpecLimiter).

\* every call of lock or forget on subject s has completed
NoCallOn(s) ==
    \A c \in LimCallers : lim[c].pc \in {"idle", "ret"} \/ lim[c].subject # s

\* C39: a subject is never left busy. Whatever calls were made, admitted or
\* denied as too soon or as busy, and whatever forgets completed: when no
\* call on the subject is in progress, so that no function runs for it, the
\* permit of its state is free and its semaphore open; a lock call that
\* begins then, at least the interval after the last completed publish or on
\* a subject without state, acquires the permit and runs its function.
C39_NeverLeftBusy ==
    [][\A s \in LimSubjects :
          NoCallOn(s) =>
              /\ s \in DOMAIN subjects =>
                     /\ sems[subjects[s].sem].holder = "none"
                     /\ ~sems[subjects[s].sem].closed
                     /\ sems[subjects[s].sem].waiters = <<>>
              /\ \A c \in LimCallers :
                     (/\ LockEnters(c, s)
                      /\ \/ s \notin DOMAIN subjects
                         \/ ~too_soon(clock, subjects[s].last_sent)) =>
                         /\ Admitted(lim'[c])
                         /\ lock_decide(LimiterState', c).lim[c].pc = "running"
      ]_vars

\* on a state on which a function was published at instant 0, and after
\* lock calls were denied as too soon and as busy, a lock call made an
\* interval later runs its function
C39_Witness ==
    \E c, d \in LimCallers :
        /\ c # d
        /\ lim[c].pc = "running"
        /\ interval = 1
        /\ clock = 1
        /\ Len(sems) = 1
        /\ subjects[lim[c].subject].last_sent = 0
        /\ lim[d].pc = "ret"
        /\ lim[d].ret \in {"TooSoon", "Busy"}

-----------------------------------------------------------------------------
\* Properties of register_file (checked under SpecRetry).

\* the first attempt whose answer is not an error that is retried, or
\* MaxRetries + 2 when there is none
RECURSIVE FirstFinal(_, _)
FirstFinal(responses, n) ==
    IF n > MaxRetries + 1 THEN n
    ELSE IF ~should_retry(responses[n]) THEN n
    ELSE FirstFinal(responses, n + 1)

\* C40: whatever the number of retries r configured, register_file sends at
\* least one request and does not panic. An answer that is not retried ends
\* the call at once: Ok for a success and otherwise the error of that
\* answer. When the first r answers are errors that are retried, r requests
\* are sent and the last error is returned. There is a sleep after every
\* failed attempt but the last, of at most 20 seconds.
C40_RetryLoop ==
    call.fn = "register_file" =>
        LET r == call.retries
            out == call.returned
            n == FirstFinal(call.responses, 1)
        IN  /\ out.requests >= 1
            /\ out.result # "panic"
            /\ (n <= r) =>
                   /\ out.requests = n
                   /\ out.result =
                          IF call.responses[n] = 200 THEN "Ok" ELSE "Err"
                   /\ out.result = "Err" => out.error = call.responses[n]
                   /\ Len(out.sleeps) = n - 1
            /\ (n > r /\ r <= MaxRetries) =>
                   /\ out.requests = r
                   /\ out.result = "Err"
                   /\ out.error = call.responses[r]
                   /\ Len(out.sleeps) = r - 1
            /\ \A i \in DOMAIN out.sleeps : out.sleeps[i] <= 20

\* the same for the calls with 1 to MaxRetries retries configured
C40_RetryLoopFromOne ==
    (call.fn = "register_file" /\ call.retries \in 1..MaxRetries) =>
        C40_RetryLoop

----------------------------------------------------------------------------
\* cube_sender.rs: the end of an association

\* the jobs of an association that the pool has not run yet
JobsOf(uuid, actions) ==
    {i \in 1..Len(chris.pool) :
        chris.pool[i].uuid = uuid /\ chris.pool[i].action \in actions}

\* C38: under every interleaving of the jobs of the pool with the events, the
\* end of an association is registered at most once, only after its Finish
\* was received and all its PushDicom jobs have run, and it is registered
\* once Finish was received and no job of the association is left; no series
\* in the map has pushed more files than it received, and no thread panics
C38_FinalizedOnce ==
    /\ ~chris.panic
    /\ \A u \in ChrisUuids :
        /\ chris.finalized[u] <= 1
        /\ chris.finalized[u] = 1 =>
               /\ chris.phase[u] = "finished"
               /\ JobsOf(u, {"PushDicom"}) = {}
        /\ (chris.phase[u] = "finished"
               /\ JobsOf(u, {"PushDicom", "Finalize"}) = {}) =>
               chris.finalized[u] = 1
        /\ chris.associations[u] # None =>
               \A k \in ChrisSeries :
                   LET progress == chris.associations[u][1].series[k]
                   IN  progress # None =>
                           progress[1].pushed <= progress[1].received

\* one association received its Finish while a PushDicom job of it was not
\* run yet, and the end of another was registered after all its instances
C38_Witness ==
    \E u, v \in ChrisUuids :
        /\ chris.associations[u] # None
        /\ chris.associations[u][1].finished
        /\ JobsOf(u, {"PushDicom"}) # {}
        /\ chris.finalized[v] = 1
        /\ chris.fed[v] = MaxInstances

----------------------------------------------------------------------------
\* run_everything.rs: the order of the shutdown

\* each stage has ended only after the stage before it, with its channel
\* closed and empty
StagesEndInOrder ==
    /\ syncPc = "returned" => srcClosed /\ rx_storetasks = <<>>
    /\ msgPc = "returned" => syncPc = "returned" /\ rx_register = <<>>
    /\ lim["pub"].pc = "drained" =>
           PublisherChannelsClosed /\ lonkRead = Len(emitted)
    /\ celPc = "closed" =>
           PublisherChannelsClosed /\ celeryRead = Len(celery)

\* run_everything has returned
RunEverythingReturned == PublisherChannelsClosed /\ call.pc = "returned"

\* every message and task of the messenger was received by its publisher,
\* and both broker clients were flushed and closed
EverythingPublished ==
    /\ rx_register = <<>>
    /\ lonkRead = Len(emitted)
    /\ celeryRead = Len(celery)
    /\ lim["pub"].pc = "drained"
    /\ celPc = "closed"

\* C32: the stages end in the order of the pipeline, each with its channel
\* closed and empty, and when run_everything has returned every message and
\* task emitted by the messenger was received by its publisher and the
\* broker clients were flushed
C32_ShutdownDrains ==
    /\ StagesEndInOrder
    /\ RunEverythingReturned => EverythingPublished

\* no publish, flush or close has failed
NoPublishFailure ==
    /\ msgPc # "failed"
    /\ celPc # "failed"
    /\ lim["pub"].pc # "failed"

\* the same order on the runs in which the brokers accept every request
CleanShutdownDrains ==
    /\ StagesEndInOrder
    /\ (RunEverythingReturned /\ NoPublishFailure) => EverythingPublished

\* run_everything has returned Ok after messages and a task were published
CleanShutdownReached ==
    /\ RunEverythingReturned
    /\ call.result = "Ok"
    /\ Len(emitted) >= 2
    /\ Len(submitted) >= 1

====
